---- MODULE Spec2Model ----
(***************************************************************************)
(* pendector: repository discovery (core/scanner.rs), the repository       *)
(* status / remote sync state reader (git/status.rs) and the run of the    *)
(* program (main.rs, cli/mod.rs, config.rs).                               *)
(*                                                                         *)
(* The specifications of the module share its variables:                   *)
(*   SpecStatus         one call of                                        *)
(*                      GitStatus::get_repository_status_with_fetch on a   *)
(*                      repository whose commit graph, HEAD, remote        *)
(*                      tracking refs and working tree status are drawn    *)
(*                      from bounded sets;                                 *)
(*   SpecScanWithDepth  one call of RepoScanner::scan_with_depth on a      *)
(*                      bounded directory tree;                            *)
(*   SpecScan           one call of scan_with_options_and_timeout on a     *)
(*                      bounded directory tree;                            *)
(*   SpecFetchOne       one call of GitStatus::perform_fetch_with_timeout; *)
(*   SpecFetchAll       one call of                                        *)
(*                      perform_parallel_fetch_with_timeout_and_progress;  *)
(*   SpecFetchAllOrScan either of the two calls above that fetch several   *)
(*                      repositories (the parallel fetch, the scan), and   *)
(*                      FairSpecFetchAllOrScan, the same with every        *)
(*                      started call and task running on;                  *)
(*   SpecMain           one run of main on a command line, a               *)
(*                      configuration file and a directory tree.           *)
(* Option<T> values are sequences: << >> is None, <<v>> is Some(v).        *)
(***************************************************************************)
EXTENDS Integers, Sequences, FiniteSets, TLC

\* ------------------------------------------------------------------ bounds
\* Number of commits of the modelled history (commit ids 1..MaxCommits).
MaxCommits == 3
\* Directory levels below the base path in the modelled trees.
MaxLevel == 3
\* The max_depth arguments tried are 0 .. MaxDepthArg: up to one more than
\* the depth of the deepest entry.
MaxDepthArg == MaxLevel + 2
\* Pieces of text in the stderr of a fetch process.
MaxStderr == 2
\* Repositories handed to one parallel fetch.
MaxRepos == 2

VARIABLES
    \* --- one repository, as libgit2 reads it (git/status.rs)
    parents,      \* commit graph: commit id -> set of parent commit ids
    head,         \* HEAD: [kind, name, oid]
    remote_refs,  \* refs/remotes/origin/<name>: name -> [kind, oid]
    statuses,     \* repo.statuses(): sequence of [flag, path]
    open_error,   \* Git2Repository::open: "none", "NotFound" or "Other"
    call,         \* position in get_repository_status_with_fetch
    should_fetch, \* argument of get_repository_status_with_fetch
    result,       \* its return value, << >> before it returned
    warnings,     \* the "Warning: ..." lines written to stderr, as a set
    \* --- one scan of a base path (core/scanner.rs)
    fs,           \* the directory tree: path -> kind of the entry
    base_path,    \* the base_path argument
    pc,           \* position in the scan
    max_depth,    \* the max_depth argument
    scan_fetch,   \* the should_fetch argument of the scan
    walked,       \* what WalkDir yielded, in order
    repo_paths,   \* the collected repository paths
    fetch_results,\* _fetch_results: index -> Option<Result>
    status_read,  \* whether get_repository_status returned Ok, per task
    repositories, \* the Option<Repository> of each par_iter task
    scan_result,  \* the Vec<Repository> returned, << >> before the return
    \* --- one parallel fetch of repo_paths (git/status.rs)
    fetch_timeout,\* the timeout of the fetch, in seconds
    show_progress,\* the show_progress argument
    progress_bar, \* Option<ProgressBar>: [len, pos, finished]
    counter,      \* the AtomicUsize counting the finished fetches
    current,      \* the local 'current' of each task, << >> before fetch_add
    fetch_procs,  \* how the fetch process of each task went, << >> before
    fetch_return, \* the Vec<Result> returned, << >> before the return
    \* --- one run of the program (main.rs)
    argv,         \* the command line: the options and paths given
    args,         \* Args::parse() of it, << >> before the parse
    config_file,  \* the configuration file as Config::load finds it
    config,       \* the Config main works with, << >> before it is loaded
    main_pc,      \* position in main
    paths_to_scan,\* the base paths of the run
    path_index,   \* the index of the base path the loop is at
    scan_calls,   \* the calls of scan_with_options_and_timeout made so far
    all_repositories, \* the repositories collected over the base paths
    exit_status,  \* the exit code of the process, << >> while it runs
    stdout        \* what was printed to stdout: << >> or the report

statusVars == <<parents, head, remote_refs, statuses, open_error, call,
                should_fetch, result>>
scanVars == <<fs, base_path, pc, max_depth, scan_fetch, walked, repo_paths,
              fetch_results, status_read, repositories, scan_result>>
fetchVars == <<fetch_timeout, show_progress, progress_bar, counter, current,
               fetch_procs, fetch_return>>
mainVars == <<argv, args, config_file, config, main_pc, paths_to_scan, path_index,
              scan_calls, all_repositories, exit_status, stdout>>

\* ------------------------------------------------------------ commit graph
Commits == 1 .. MaxCommits

\* Histories: every commit has at most two parents, all older than itself
\* (ids are in topological order), so the graph is a DAG with roots.
CommitGraphs ==
    { g \in [Commits -> SUBSET Commits] :
        \A c \in Commits : g[c] \subseteq 1 .. (c - 1) /\ Cardinality(g[c]) <= 2 }

\* Commits reachable from c through parent links, c included.
RECURSIVE Ancestors(_)
Ancestors(c) == {c} \cup UNION { Ancestors(p) : p \in parents[c] }

\* Variant of MergeBases that accepts any common ancestor as the merge base.
MergeBasesAnyCommon(a, b) == Ancestors(a) \cap Ancestors(b)

\* git_merge_base: the best common ancestors of two commits, those common
\* ancestors that are not ancestors of another common ancestor.
MergeBases(a, b) ==
    LET common == Ancestors(a) \cap Ancestors(b)
    IN  { c \in common : \A d \in common \ {c} : c \notin Ancestors(d) }

\* repo.merge_base(local_oid, remote_oid): Err (<< >>) when the histories
\* share no commit, Ok(base) with one of the best common ancestors otherwise.
MergeBaseResults(a, b) ==
    IF MergeBases(a, b) = {} THEN { << >> }
    ELSE { <<c>> : c \in MergeBases(a, b) }

\* -------------------------------------------------------------- references
BranchNames == {"main", "dev"}
RemoteNames == {"main", "HEAD"}

\* HEAD states: unborn (repo.head() fails), on a branch whose name is UTF-8
\* (name = <<n>>) or not (name = << >>), or detached at a commit.
Heads ==
    { [kind |-> "unborn", name |-> <<"main">>, oid |-> 0] }
    \cup { [kind |-> "branch", name |-> <<n>>, oid |-> c] :
             n \in BranchNames, c \in Commits }
    \cup { [kind |-> "branch", name |-> << >>, oid |-> c] : c \in Commits }
    \cup { [kind |-> "detached", name |-> <<"HEAD">>, oid |-> c] : c \in Commits }

AbsentRef == [kind |-> "absent", oid |-> 0]
\* refs/remotes/origin/HEAD is the symbolic ref git clone writes (it names
\* origin/main and has no direct target); origin/main is a direct ref.
RemoteRefStates ==
    { r \in [RemoteNames -> [kind : {"absent", "direct", "symbolic"},
                             oid : Commits \cup {0}]] :
        /\ r["main"] \in {AbsentRef} \cup
               { [kind |-> "direct", oid |-> c] : c \in Commits }
        /\ r["HEAD"] \in {AbsentRef, [kind |-> "symbolic", oid |-> 0]} }

\* head.shorthand(): the branch name, "HEAD" when detached, None when the
\* name is not valid UTF-8.
Shorthand(h) == IF h.kind = "detached" THEN <<"HEAD">> ELSE h.name

\* Variant of RemoteBranchName that leaves the remote name out.
RemoteBranchNameBare(branch_name) == <<"", branch_name>>

\* format!("origin/{branch_name}")
RemoteBranchName(branch_name) == <<"origin/", branch_name>>

\* Variant of FindReference that falls back to origin/main for a branch
\* without a remote tracking ref of its own.
FindReferenceFallback(refs, name) ==
    IF name \in DOMAIN refs /\ refs[name].kind # "absent"
    THEN <<refs[name]>>
    ELSE IF refs["main"].kind # "absent" THEN <<refs["main"]>>
    ELSE << >>

\* repo.find_reference("refs/remotes/origin/<name>") on the remote refs refs
FindReference(refs, name) ==
    IF name \in DOMAIN refs /\ refs[name].kind # "absent"
    THEN <<refs[name]>>
    ELSE << >>

\* Reference::target(): None for a symbolic reference.
Target(ref) == IF ref.kind = "direct" THEN <<ref.oid>> ELSE << >>

\* ------------------------------------------------------ working tree status
\* The status bits of an entry that get_repository_status_with_fetch tests.
StatusBits == {"wt_new", "index_new", "wt_modified", "index_modified",
               "wt_deleted", "index_deleted", "wt_renamed", "index_renamed"}

\* The prefix chosen for an entry from its status bits, in the code's order.
Prefix(status) ==
    IF "wt_new" \in status \/ "index_new" \in status THEN "?? "
    ELSE IF "wt_modified" \in status \/ "index_modified" \in status THEN " M "
    ELSE IF "wt_deleted" \in status \/ "index_deleted" \in status THEN " D "
    ELSE IF "wt_renamed" \in status \/ "index_renamed" \in status THEN " R "
    ELSE "   "

\* statuses.iter().filter_map(|entry| entry.path().map(..)).collect():
\* entries whose path is not valid UTF-8 (path = << >>) are dropped, the
\* others are rendered as format!("{prefix}{path}").
RECURSIVE ChangedFiles(_)
ChangedFiles(entries) ==
    IF entries = << >> THEN << >>
    ELSE LET entry == Head(entries)
             rest  == ChangedFiles(Tail(entries))
         IN  IF entry.path = << >> THEN rest
             ELSE << <<Prefix(entry.status), entry.path[1]>> >> \o rest

\* Working tree states the status specification starts from.
StatusSamples ==
    { << >>,
      << [status |-> {"wt_new"}, path |-> <<"new_file.txt">>] >>,
      << [status |-> {"wt_modified"}, path |-> <<"README.md">>],
         [status |-> {"index_deleted"}, path |-> << >>] >>,
      << [status |-> {"wt_new"}, path |-> << >>] >> }

\* ------------------------------------------------------- check_remote_sync
\* Variant of SyncFlags that compares the merge base with the wrong side.
SyncFlagsSwapped(local_oid, remote_oid, mb) ==
    IF local_oid = remote_oid
    THEN [needs_pull |-> FALSE, needs_push |-> FALSE]
    ELSE IF mb = << >>
    THEN [needs_pull |-> TRUE, needs_push |-> TRUE]
    ELSE LET base_oid == mb[1]
         IN  IF base_oid = remote_oid /\ base_oid # local_oid
             THEN [needs_pull |-> TRUE, needs_push |-> FALSE]
             ELSE IF base_oid = local_oid /\ base_oid # remote_oid
             THEN [needs_pull |-> FALSE, needs_push |-> TRUE]
             ELSE IF base_oid # local_oid /\ base_oid # remote_oid
             THEN [needs_pull |-> TRUE, needs_push |-> TRUE]
             ELSE [needs_pull |-> FALSE, needs_push |-> FALSE]

\* Variant of SyncFlags that leaves the flags at their defaults when
\* repo.merge_base fails.
SyncFlagsErrIgnored(local_oid, remote_oid, mb) ==
    IF local_oid = remote_oid \/ mb = << >>
    THEN [needs_pull |-> FALSE, needs_push |-> FALSE]
    ELSE LET base_oid == mb[1]
         IN  IF base_oid = local_oid /\ base_oid # remote_oid
             THEN [needs_pull |-> TRUE, needs_push |-> FALSE]
             ELSE IF base_oid = remote_oid /\ base_oid # local_oid
             THEN [needs_pull |-> FALSE, needs_push |-> TRUE]
             ELSE [needs_pull |-> TRUE, needs_push |-> TRUE]

\* The flags for a local and a remote tip that both exist; mb is the result
\* of repo.merge_base, which the code asks for only when the tips differ.
SyncFlags(local_oid, remote_oid, mb) ==
    IF local_oid = remote_oid
    THEN [needs_pull |-> FALSE, needs_push |-> FALSE]
    ELSE IF mb = << >>
    THEN [needs_pull |-> TRUE, needs_push |-> TRUE]
    ELSE LET base_oid == mb[1]
         IN  IF base_oid = local_oid /\ base_oid # remote_oid
             THEN [needs_pull |-> TRUE, needs_push |-> FALSE]
             ELSE IF base_oid = remote_oid /\ base_oid # local_oid
             THEN [needs_pull |-> FALSE, needs_push |-> TRUE]
             ELSE IF base_oid # local_oid /\ base_oid # remote_oid
             THEN [needs_pull |-> TRUE, needs_push |-> TRUE]
             ELSE [needs_pull |-> FALSE, needs_push |-> FALSE]

NoSync == [needs_pull |-> FALSE, needs_push |-> FALSE, remote_branch |-> << >>]

\* check_remote_sync(repo) on HEAD h and the remote refs refs: the set of
\* (needs_pull, needs_push, remote_branch) it can return, one per merge base
\* libgit2 may pick.
CheckRemoteSync(h, refs) ==
    IF h.kind = "unborn" THEN {NoSync}
    ELSE IF Shorthand(h) = << >> THEN {NoSync}
    ELSE LET branch_name == Shorthand(h)[1]
             remote_branch_name == RemoteBranchName(branch_name)
             local_oid == h.oid
             found == FindReference(refs, branch_name)
         IN  IF found = << >> THEN {NoSync}
             ELSE IF Target(found[1]) = << >>
             THEN { [needs_pull |-> FALSE, needs_push |-> FALSE,
                     remote_branch |-> <<remote_branch_name>>] }
             ELSE LET remote_oid == Target(found[1])[1]
                  IN  { [needs_pull |-> SyncFlags(local_oid, remote_oid, mb).needs_pull,
                         needs_push |-> SyncFlags(local_oid, remote_oid, mb).needs_push,
                         remote_branch |-> <<remote_branch_name>>] :
                        mb \in IF local_oid = remote_oid THEN { << >> }
                               ELSE MergeBaseResults(local_oid, remote_oid) }

\* ------------------------------------------------------ the fetch process
\* What "git fetch --all --quiet" does in a repository when nothing cuts it
\* short: the seconds it takes, its exit code (<< >> when a signal ends it)
\* and what it writes to stderr. io_error tells whether the process could
\* be spawned and waited for at all.
\* stderr is a sequence of pieces of text: the phrases from_fetch_error
\* looks for, other text, and white space.
StderrPhrases == {"Repository not found", "Could not read from remote",
                  "Authentication failed", "Network is unreachable",
                  "Temporary failure"}
WhiteSpace == " "
StderrPieces == StderrPhrases \cup {"fatal: unable to access", WhiteSpace}
Stderrs == UNION { [1 .. n -> StderrPieces] : n \in 0 .. MaxStderr }

\* Seconds a fetch may need, below and above the timeouts tried.
RunTimes == {0, 3, 9}
FetchTimeouts == {0, 1, 5}

\* The run time of a fetch that does not end by itself (it waits for a
\* remote that never answers, or for input): longer than every timeout.
Forever == 1000

NoStderr == << >>
FetchAttempts ==
    { [io_error |-> e, takes |-> 0, code |-> <<0>>, stderr |-> NoStderr] :
        e \in {"spawn", "wait"} }
    \cup { [io_error |-> "none", takes |-> t, code |-> <<0>>, stderr |-> NoStderr] :
             t \in RunTimes }
    \cup { [io_error |-> "none", takes |-> t, code |-> c, stderr |-> e] :
             t \in RunTimes, c \in { <<1>>, <<128>>, << >> }, e \in Stderrs }
    \cup { [io_error |-> "none", takes |-> Forever, code |-> << >>,
            stderr |-> NoStderr] }

\* A few attempts for the tasks of a parallel fetch: a process that cannot
\* be spawned, a fetch that succeeds at once, and one that fails after 3
\* seconds (a timeout when the limit is shorter).
FetchAttemptSamples ==
    { [io_error |-> "spawn", takes |-> 0, code |-> <<0>>, stderr |-> NoStderr],
      [io_error |-> "none", takes |-> 0, code |-> <<0>>, stderr |-> NoStderr],
      [io_error |-> "none", takes |-> 3, code |-> <<128>>,
       stderr |-> <<"Could not read from remote">>] }

\* The attempts of the fetch of a single status call: the samples, a wait
\* that fails and a fetch that would succeed after 9 seconds.
\* The attempts of the tasks of a direct call of the parallel fetch: the
\* samples and a fetch that does not end by itself.
ParallelFetchAttempts ==
    FetchAttemptSamples \cup
    { [io_error |-> "none", takes |-> Forever, code |-> << >>, stderr |-> NoStderr] }

StatusFetchAttempts ==
    FetchAttemptSamples \cup
    { [io_error |-> "wait", takes |-> 0, code |-> <<0>>, stderr |-> NoStderr],
      [io_error |-> "none", takes |-> 9, code |-> <<0>>, stderr |-> NoStderr] }

\* The exit status of "timeout <n>s git fetch ..": GNU timeout ends the
\* command and exits with 124 once it ran for n seconds; a duration of 0
\* disables the limit.
TimeoutExitCode == 124

TimedOut(timeout_secs, attempt) ==
    timeout_secs > 0 /\ attempt.takes > timeout_secs

ExitCode(timeout_secs, attempt) ==
    IF TimedOut(timeout_secs, attempt) THEN <<TimeoutExitCode>> ELSE attempt.code

\* Variant of Ends for a process that nothing cuts off.
EndsByItself(timeout_secs, attempt) ==
    attempt.io_error # "none" \/ attempt.takes < Forever

\* child.wait_with_output() returns: the process could not be spawned or
\* waited for, the fetch ends by itself, or timeout cuts it off.
Ends(timeout_secs, attempt) ==
    \/ attempt.io_error # "none"
    \/ attempt.takes < Forever
    \/ TimedOut(timeout_secs, attempt)

\* ------------------------------------------------------- from_fetch_error
\* stderr.contains(phrase)
Contains(stderr, phrase) == \E i \in DOMAIN stderr : stderr[i] = phrase

\* stderr.trim(): the text without its leading and trailing white space.
RECURSIVE TrimStart(_)
TrimStart(text) ==
    IF text # << >> /\ Head(text) = WhiteSpace THEN TrimStart(Tail(text)) ELSE text

RECURSIVE TrimEnd(_)
TrimEnd(text) ==
    IF text # << >> /\ text[Len(text)] = WhiteSpace
    THEN TrimEnd(SubSeq(text, 1, Len(text) - 1))
    ELSE text

Trim(text) == TrimEnd(TrimStart(text))

\* Path::new(&repo_path).file_name() as a path of one component, "unknown"
\* for a path without a file name.
RepoName(repo_path) ==
    IF repo_path = << >> THEN <<"unknown">> ELSE <<repo_path[Len(repo_path)]>>

ErrorRecord(kind, repo_path, timeout_secs, message) ==
    [kind |-> kind, repo_path |-> repo_path, timeout_secs |-> timeout_secs,
     message |-> message]

\* PendectorError::from_fetch_error(repo_path, stderr, exit_code)
FromFetchError(repo_path, stderr, exit_code) ==
    LET repo_name == RepoName(repo_path)
    IN  IF exit_code = <<TimeoutExitCode>>
        THEN ErrorRecord("TimeoutError", repo_name, 0, << >>)
        ELSE IF Contains(stderr, "Repository not found")
        THEN ErrorRecord("NetworkError", repo_name, 0, <<"Remote repository not found">>)
        ELSE IF Contains(stderr, "Could not read from remote")
                \/ Contains(stderr, "Authentication failed")
        THEN ErrorRecord("AuthenticationError", repo_name, 0,
                         <<"Authentication or access denied">>)
        ELSE IF Contains(stderr, "Network is unreachable")
                \/ Contains(stderr, "Temporary failure")
        THEN ErrorRecord("NetworkError", repo_name, 0, <<"Network error">>)
        ELSE IF Trim(stderr) # << >>
        THEN ErrorRecord("NetworkError", repo_name, 0, Trim(stderr))
        ELSE ErrorRecord("NetworkError", repo_name, 0, <<"Failed to fetch from remote">>)

\* ------------------------------------------------- perform_fetch_with_timeout
NoError == ErrorRecord("none", << >>, 0, << >>)
OkUnit == [kind |-> "Ok", error |-> NoError]

\* PendectorError::from_io_error(path, message)
FromIoError(path, message) == ErrorRecord("FileSystemError", path, 0, <<message>>)

\* output.stderr of child.wait_with_output(): the command is spawned
\* without Stdio::piped(), so the child writes to the stderr it inherits
\* and the Output the parent collects holds no bytes of it, whatever the
\* process wrote.
OutputStderr(attempt) == NoStderr

\* perform_fetch_with_timeout(repo_path, timeout) when the fetch goes as
\* attempt says: the PendectorResult<()> it returns and the error of the
\* "Warning: {error}" line it prints, if any. Only a failure to spawn or to
\* wait for the process is returned as an Err; a fetch that exits with a
\* non-zero status is classified, printed and answered with Ok(()).
PerformFetchWithTimeout(repo_path, timeout_secs, attempt) ==
    IF attempt.io_error = "spawn"
    THEN [result |-> [kind |-> "Err", error |-> FromIoError(repo_path, "spawn git fetch")],
          warning |-> << >>]
    ELSE IF attempt.io_error = "wait"
    THEN [result |-> [kind |-> "Err", error |-> FromIoError(repo_path, "wait for git fetch")],
          warning |-> << >>]
    ELSE IF ExitCode(timeout_secs, attempt) = <<0>>
    THEN [result |-> OkUnit, warning |-> << >>]
    ELSE LET error == FromFetchError(repo_path, OutputStderr(attempt),
                                     ExitCode(timeout_secs, attempt))
         IN  [result |-> OkUnit,
              warning |-> << IF error.kind = "TimeoutError"
                             THEN [error EXCEPT !.timeout_secs = timeout_secs]
                             ELSE error >>]

\* perform_fetch(repo_path): the timeout is 5 seconds.
DefaultFetchTimeout == 5
PerformFetch(repo_path, attempt) ==
    PerformFetchWithTimeout(repo_path, DefaultFetchTimeout, attempt)

\* The "Warning: {error}" lines a fetch of repo_path adds to stderr.
FetchWarnings(repo_path, timeout_secs, attempt) ==
    LET warning == PerformFetchWithTimeout(repo_path, timeout_secs, attempt).warning
    IN  IF warning = << >> THEN {}
        ELSE { [kind |-> "fetch", path |-> repo_path, error |-> warning[1]] }

\* ------------------------------------------ get_repository_status_with_fetch
\* The current branch as the code reads it: None for an unborn HEAD.
CurrentBranch(h) == IF h.kind = "unborn" THEN << >> ELSE Shorthand(h)

Err(e) == << [kind |-> "Err", error |-> e] >>

\* The repo_path argument of the modelled call.
StatusRepoPath == <<"work", "repo">>

\* One call: open, optional fetch, branch, statuses, remote sync.
\*   sf         the should_fetch argument
\*   attempt    how the fetch process goes (read when sf)
\*   fetched    the remote refs a successful fetch leaves behind
\*   st_ok      whether repo.statuses() succeeds
GetRepositoryStatusWithFetch ==
    /\ call = "idle"
    /\ \E sf \in BOOLEAN, attempt \in StatusFetchAttempts,
          fetched \in RemoteRefStates, st_ok \in BOOLEAN :
        LET opened  == open_error = "none"
            fetches == opened /\ sf
            fetch   == PerformFetch(StatusRepoPath, attempt)
            refs    == IF /\ fetches
                          /\ attempt.io_error = "none"
                          /\ ExitCode(DefaultFetchTimeout, attempt) = <<0>>
                       THEN fetched ELSE remote_refs
        IN  /\ should_fetch' = sf
            /\ remote_refs' = refs
            /\ warnings' = IF fetches
                           THEN warnings \cup FetchWarnings(StatusRepoPath,
                                                            DefaultFetchTimeout, attempt)
                           ELSE warnings
            /\ fetch_procs' = IF fetches THEN << <<attempt>> >> ELSE fetch_procs
            /\ fetch_timeout' = IF fetches THEN DefaultFetchTimeout ELSE fetch_timeout
            /\ IF open_error = "NotFound"
               THEN result' = Err("GitRepositoryNotFound")
               ELSE IF open_error # "none"
               THEN result' = Err("GitOperationFailed: open repository")
               ELSE IF sf /\ fetch.result.kind = "Err"
               THEN result' = Err(fetch.result.error.kind)
               ELSE IF ~st_ok
               THEN result' = Err("GitOperationFailed: get status")
               ELSE \E sync \in CheckRemoteSync(head, refs) :
                      result' = << [kind |-> "Ok",
                                    has_changes |-> statuses # << >>,
                                    current_branch |-> CurrentBranch(head),
                                    changed_files |-> ChangedFiles(statuses),
                                    needs_pull |-> sync.needs_pull,
                                    needs_push |-> sync.needs_push,
                                    remote_branch |-> sync.remote_branch] >>
    /\ call' = "done"
    /\ UNCHANGED <<parents, head, statuses, open_error>>
    /\ UNCHANGED <<show_progress, progress_bar, counter, current, fetch_return>>

\* No scan is running: the scan variables of a status-only behaviour.
NoScan ==
    /\ fs = << >>
    /\ base_path = << >>
    /\ pc = "none"
    /\ max_depth = 0
    /\ scan_fetch = FALSE
    /\ walked = << >>
    /\ repo_paths = << >>
    /\ fetch_results = << >>
    /\ status_read = << >>
    /\ repositories = << >>
    /\ scan_result = << >>

\* The program is not run: the variables of main.
NoMain ==
    /\ argv = << >>
    /\ args = << >>
    /\ config_file = << >>
    /\ config = << >>
    /\ main_pc = "none"
    /\ paths_to_scan = << >>
    /\ path_index = 0
    /\ scan_calls = << >>
    /\ all_repositories = << >>
    /\ exit_status = << >>
    /\ stdout = << >>

\* No parallel fetch is running or has run.
NoFetch ==
    /\ fetch_timeout = 0
    /\ show_progress = FALSE
    /\ progress_bar = << >>
    /\ counter = 0
    /\ current = << >>
    /\ fetch_procs = << >>
    /\ fetch_return = << >>

InitStatus ==
    /\ open_error \in {"none", "NotFound", "Other"}
    /\ parents \in CommitGraphs
    /\ head \in Heads
    /\ remote_refs \in RemoteRefStates
    /\ statuses \in StatusSamples
    /\ open_error # "none" =>
         /\ parents = [c \in Commits |-> {}]
         /\ head.kind = "unborn"
         /\ remote_refs = [n \in RemoteNames |-> AbsentRef]
         /\ statuses = << >>
    /\ call = "idle"
    /\ should_fetch = FALSE
    /\ result = << >>
    /\ warnings = {}
    /\ NoScan
    /\ NoFetch
    /\ NoMain

NextStatus == GetRepositoryStatusWithFetch /\ UNCHANGED <<scanVars, mainVars>>

vars == <<statusVars, scanVars, fetchVars, mainVars, warnings>>

SpecStatus == InitStatus /\ [][NextStatus]_vars

\* ======================================================================
\* core/scanner.rs: discovery and scan
\* ======================================================================

\* ------------------------------------------------------------- file system
\* A path is the sequence of its components; the base path lies in the
\* directory <<"work">>. fs maps every existing path to the kind of entry:
\* "dir" (a directory), "locked" (a directory read_dir fails on), "file"
\* (a regular file), "symlink" (a symbolic link to a directory, the paths
\* below it being what lies behind the link).
Parent(p) == SubSeq(p, 1, Len(p) - 1)
FileName(p) == p[Len(p)]

\* What a directory level of a modelled tree looks like. The trees are
\* chains base = D0, D1, .. of nested directories, each with at most one
\* more entry named ".git":
\*   plain       a directory without a .git entry
\*   repo        a directory with a .git directory
\*   gitfile     a directory with a regular file .git (submodule gitlink)
\*   gitlink     a directory with a symbolic link .git
\*   linked      a symbolic link to a directory that holds a .git directory
\*   locked      an unreadable directory that holds a .git directory
\*   dotgit      a directory itself named .git
\*   dotgitrepo  a directory itself named .git that holds a .git directory
AllLevelKinds == {"plain", "repo", "gitfile", "gitlink", "linked", "locked",
                  "dotgit", "dotgitrepo"}
ScanLevelKinds == {"plain", "repo", "locked", "dotgitrepo"}

NamedDotGit(k) == k \in {"dotgit", "dotgitrepo"}

\* Names in a directory are unique: a level whose child directory is named
\* .git has no other .git entry.
Shapes(kinds, top) ==
    { sh \in [0 .. top -> kinds] :
        \A i \in 0 .. (top - 1) :
            NamedDotGit(sh[i + 1]) => sh[i] \in {"plain", "dotgit"} }

LevelPath(sh, i) ==
    <<"work">> \o [j \in 1 .. (i + 1) |->
                     IF NamedDotGit(sh[j - 1]) THEN ".git" ELSE "a"]

LevelEntryKind(k) ==
    IF k = "linked" THEN "symlink" ELSE IF k = "locked" THEN "locked" ELSE "dir"

DotGitEntryKind(k) ==
    IF k \in {"repo", "linked", "locked", "dotgitrepo"} THEN "dir"
    ELSE IF k = "gitfile" THEN "file"
    ELSE IF k = "gitlink" THEN "symlink"
    ELSE "none"

\* The directory tree of a shape.
BuildFs(sh) ==
    LET levels == { LevelPath(sh, i) : i \in DOMAIN sh }
        dotgits == { LevelPath(sh, i) \o <<".git">> :
                       i \in { j \in DOMAIN sh : DotGitEntryKind(sh[j]) # "none" } }
    IN  [ p \in levels \cup dotgits |->
            IF p \in levels THEN LevelEntryKind(sh[Len(p) - 2])
            ELSE DotGitEntryKind(sh[Len(p) - 3]) ]

\* ----------------------------------------------------------------- WalkDir
\* Variant of WalkDir built with follow_links(true).
RECURSIVE WalkDirFollowingLinks(_, _, _, _, _)
WalkDirFollowingLinks(tree, p, depth, maxd, git_first) ==
    LET dent == [ok |-> TRUE, path |-> p, depth |-> depth,
                 is_dir |-> tree[p] \in {"dir", "locked", "symlink"}]
        first == p \o << IF git_first THEN ".git" ELSE "a" >>
        second == p \o << IF git_first THEN "a" ELSE ".git" >>
        Below(q) == IF q \in DOMAIN tree
                    THEN WalkDirFollowingLinks(tree, q, depth + 1, maxd, git_first)
                    ELSE << >>
    IN  IF ~(dent.is_dir /\ depth < maxd) THEN <<dent>>
        ELSE IF tree[p] = "locked"
        THEN <<dent, [ok |-> FALSE, path |-> p, depth |-> depth + 1, is_dir |-> FALSE]>>
        ELSE <<dent>> \o Below(first) \o Below(second)

\* Variant of WalkDir that reads the directories at depth max_depth too.
RECURSIVE WalkDirOneDeeper(_, _, _, _, _)
WalkDirOneDeeper(tree, p, depth, maxd, git_first) ==
    LET dent == [ok |-> TRUE, path |-> p, depth |-> depth,
                 is_dir |-> tree[p] \in {"dir", "locked"}]
        first == p \o << IF git_first THEN ".git" ELSE "a" >>
        second == p \o << IF git_first THEN "a" ELSE ".git" >>
        Below(q) == IF q \in DOMAIN tree
                    THEN WalkDirOneDeeper(tree, q, depth + 1, maxd, git_first)
                    ELSE << >>
        descends == /\ dent.is_dir \/ (depth = 0 /\ tree[p] = "symlink")
                    /\ depth <= maxd
    IN  IF ~descends THEN <<dent>>
        ELSE IF tree[p] = "locked"
        THEN <<dent, [ok |-> FALSE, path |-> p, depth |-> depth + 1, is_dir |-> FALSE]>>
        ELSE <<dent>> \o Below(first) \o Below(second)

\* WalkDir::new(base).follow_links(false).max_depth(maxd).into_iter(), from
\* the entry p at depth depth on: the items it yields, in order. An item is
\* Ok(entry) with the entry's path, depth and file_type().is_dir(), or the
\* Err of a directory that could not be read. The entry itself comes first;
\* a directory (or a symbolic link given as the root) above max_depth is
\* then read, its entries in the order read_dir lists them (git_first: the
\* name .git before the others).
RECURSIVE WalkDir(_, _, _, _, _)
WalkDir(tree, p, depth, maxd, git_first) ==
    LET dent == [ok |-> TRUE, path |-> p, depth |-> depth,
                 is_dir |-> tree[p] \in {"dir", "locked"}]
        first == p \o << IF git_first THEN ".git" ELSE "a" >>
        second == p \o << IF git_first THEN "a" ELSE ".git" >>
        Below(q) == IF q \in DOMAIN tree
                    THEN WalkDir(tree, q, depth + 1, maxd, git_first)
                    ELSE << >>
        descends == /\ dent.is_dir \/ (depth = 0 /\ tree[p] = "symlink")
                    /\ depth < maxd
    IN  IF ~descends THEN <<dent>>
        ELSE IF tree[p] = "locked"
        THEN <<dent, [ok |-> FALSE, path |-> p, depth |-> depth + 1, is_dir |-> FALSE]>>
        ELSE <<dent>> \o Below(first) \o Below(second)

\* Variant of RepoPaths that keeps the path of the .git entry itself.
RECURSIVE PathsOf(_)
PathsOf(items) ==
    IF items = << >> THEN << >>
    ELSE <<Head(items).path>> \o PathsOf(Tail(items))

\* Variant of IsGitDir without the file type test.
IsGitDirByName(item) == item.ok /\ FileName(item.path) = ".git"

\* .filter(|entry| entry.file_type().is_dir() && entry.file_name() == ".git")
\* after the filter_map that drops the Err items.
IsGitDir(item) == item.ok /\ item.is_dir /\ FileName(item.path) = ".git"

\* .filter_map(|entry| entry.path().parent().map(|p| p.to_path_buf())).collect()
RECURSIVE ParentsOf(_)
ParentsOf(items) ==
    IF items = << >> THEN << >>
    ELSE IF Len(Head(items).path) = 0 THEN ParentsOf(Tail(items))
    ELSE <<Parent(Head(items).path)>> \o ParentsOf(Tail(items))

RepoPaths(items) == ParentsOf(SelectSeq(items, IsGitDir))

\* The "Warning: Failed to access path during scan" lines of the Err items.
AccessWarnings(items) ==
    { [kind |-> "access", path |-> items[i].path,
       error |-> ErrorRecord("WalkDirError", items[i].path, 0, << >>)] :
        i \in { j \in 1 .. Len(items) : ~items[j].ok } }

\* -------------------------------------------------------------- Repository
\* Variant of RepositoryNew that does not take the name from the path.
RepositoryNewUnnamed(path) ==
    [path |-> path, name |-> "unknown", has_changes |-> FALSE,
     current_branch |-> << >>, changed_files |-> << >>,
     needs_pull |-> FALSE, needs_push |-> FALSE, remote_branch |-> << >>]

\* Repository::new(path): the name is the last path component, the git
\* fields start at their defaults.
RepositoryNew(path) ==
    [path |-> path, name |-> FileName(path), has_changes |-> FALSE,
     current_branch |-> << >>, changed_files |-> << >>,
     needs_pull |-> FALSE, needs_push |-> FALSE, remote_branch |-> << >>]

WithGitInfo(repository, has_changes, branch, files) ==
    [repository EXCEPT !.has_changes = has_changes,
                       !.current_branch = branch,
                       !.changed_files = files]

WithRemoteInfo(repository, needs_pull, needs_push, remote_branch) ==
    [repository EXCEPT !.needs_pull = needs_pull,
                       !.needs_push = needs_push,
                       !.remote_branch = remote_branch]

\* What GitStatus::get_repository_status(repo_path) can hand to the scan:
\* an error of Git2Repository::open, or the status of a repository.
ScanStatusResults ==
    { [kind |-> "Err", error |-> "GitRepositoryNotFound"],
      [kind |-> "Err", error |-> "GitOperationFailed: open repository"],
      [kind |-> "Ok", has_changes |-> TRUE, current_branch |-> <<"main">>,
       changed_files |-> << <<"?? ", "x.txt">> >>, needs_pull |-> TRUE,
       needs_push |-> FALSE, remote_branch |-> << <<"origin/", "main">> >>] }

\* Variant of StatusTask that drops a repository whose status cannot be read.
StatusTaskOmitting(repo_path, status) ==
    IF status.kind = "Ok"
    THEN << WithRemoteInfo(
              WithGitInfo(RepositoryNew(repo_path), status.has_changes,
                          status.current_branch, status.changed_files),
              status.needs_pull, status.needs_push, status.remote_branch) >>
    ELSE << >>

\* The closure of repo_paths.par_iter().filter_map(..): the Option it
\* returns for repo_path when get_repository_status returned status.
StatusTask(repo_path, status) ==
    IF status.kind = "Ok"
    THEN << WithRemoteInfo(
              WithGitInfo(RepositoryNew(repo_path), status.has_changes,
                          status.current_branch, status.changed_files),
              status.needs_pull, status.needs_push, status.remote_branch) >>
    ELSE << RepositoryNew(repo_path) >>

\* The Option values of n tasks that have not run yet.
Pending(n) == [i \in 1 .. n |-> << >>]

\* ------------------------ perform_parallel_fetch_with_timeout_and_progress
\* ProgressBar::new(len)
ProgressBarNew(len) == [len |-> len, pos |-> 0, finished |-> FALSE]

\* pb.set_position(pos)
SetPositionOf(pb, pos) == [pb EXCEPT !.pos = pos]

\* Variant of FinishWithMessage that leaves the position where it is.
FinishLeavingPosition(pb) == [pb EXCEPT !.finished = TRUE]

\* pb.finish_with_message("Completed"): the bar is finished and its
\* position moved to its length.
FinishWithMessage(pb) == [pb EXCEPT !.pos = pb.len, !.finished = TRUE]

\* e.to_string(): the text fmt::Display writes of an error, as its parts.
Display(error) == <<error.kind, error.repo_path, error.message>>

\* .map_err(|e| e.to_string())
MapErr(fetched) ==
    IF fetched.kind = "Ok" THEN [kind |-> "Ok", message |-> << >>]
    ELSE [kind |-> "Err", message |-> Display(fetched.error)]

\* collect() returns once the closure returned for every item.
AllTasksDone(results) == \A i \in DOMAIN results : results[i] # << >>

\* Variant of CollectResults that lists the results from the last item to
\* the first.
CollectReversed(results) ==
    [i \in DOMAIN results |-> results[Len(results) + 1 - i][1]]

\* collect() of an indexed parallel iterator: the result of item i is
\* written to element i, whatever the order in which the tasks finish.
CollectResults(results) == [i \in DOMAIN results |-> results[i][1]]

\* The function up to the start of the tasks, for n paths.
StartParallelFetch(n, timeout_secs, progress) ==
    /\ fetch_timeout' = timeout_secs
    /\ show_progress' = progress
    /\ progress_bar' = IF progress THEN <<ProgressBarNew(n)>> ELSE << >>
    /\ counter' = 0
    /\ current' = Pending(n)
    /\ fetch_procs' = Pending(n)
    /\ fetch_results' = Pending(n)
    /\ fetch_return' = << >>

\* Variant of PerformParallelFetch that builds the progress bar before it
\* looks at the list.
PerformParallelFetchBarFirst ==
    /\ pc = "idle"
    /\ \E t \in FetchTimeouts, progress \in BOOLEAN :
        IF repo_paths = << >>
        THEN /\ fetch_timeout' = t
             /\ show_progress' = progress
             /\ progress_bar' = IF progress THEN <<ProgressBarNew(0)>> ELSE << >>
             /\ fetch_return' = << << >> >>
             /\ pc' = "done"
             /\ UNCHANGED <<counter, current, fetch_procs, fetch_results>>
        ELSE /\ StartParallelFetch(Len(repo_paths), t, progress)
             /\ pc' = "fetch"
    /\ UNCHANGED <<fs, base_path, max_depth, scan_fetch, walked, repo_paths,
                   status_read, repositories, scan_result, statusVars, warnings>>

\* A direct call of perform_parallel_fetch_with_timeout_and_progress on
\* repo_paths; an empty list is answered at once.
PerformParallelFetch ==
    /\ pc = "idle"
    /\ \E t \in FetchTimeouts, progress \in BOOLEAN :
        IF repo_paths = << >>
        THEN /\ fetch_timeout' = t
             /\ show_progress' = progress
             /\ fetch_return' = << << >> >>
             /\ pc' = "done"
             /\ UNCHANGED <<progress_bar, counter, current, fetch_procs,
                            fetch_results>>
        ELSE /\ StartParallelFetch(Len(repo_paths), t, progress)
             /\ pc' = "fetch"
    /\ UNCHANGED <<fs, base_path, max_depth, scan_fetch, walked, repo_paths,
                   status_read, repositories, scan_result, statusVars, warnings>>

\* One task of repo_paths.par_iter().map(..), up to counter.fetch_add: the
\* fetch of repo_paths[i], then, with a progress bar, the increment of the
\* counter. Without a progress bar the task returns its result here.
FetchAndCount(i) ==
    /\ pc = "fetch"
    /\ fetch_procs[i] = << >>
    /\ \E attempt \in ParallelFetchAttempts :
        /\ Ends(fetch_timeout, attempt)
        /\ fetch_procs' = [fetch_procs EXCEPT ![i] = <<attempt>>]
        /\ warnings' = warnings \cup
                         FetchWarnings(repo_paths[i], fetch_timeout, attempt)
        /\ IF progress_bar # << >>
           THEN /\ counter' = counter + 1
                /\ current' = [current EXCEPT ![i] = <<counter + 1>>]
                /\ UNCHANGED fetch_results
           ELSE /\ fetch_results' =
                     [fetch_results EXCEPT ![i] =
                        << MapErr(PerformFetchWithTimeout(
                                    repo_paths[i], fetch_timeout, attempt).result) >>]
                /\ UNCHANGED <<counter, current>>
    /\ UNCHANGED <<fs, base_path, pc, max_depth, scan_fetch, walked, repo_paths,
                   status_read, repositories, scan_result, statusVars>>
    /\ UNCHANGED <<fetch_timeout, show_progress, progress_bar, fetch_return>>

\* A task whose fetch does not end: it stays in child.wait_with_output().
FetchHangs(i) ==
    /\ pc = "fetch"
    /\ fetch_procs[i] = << >>
    /\ \E attempt \in ParallelFetchAttempts :
        /\ ~Ends(fetch_timeout, attempt)
        /\ fetch_procs' = [fetch_procs EXCEPT ![i] = <<attempt>>]
    /\ UNCHANGED <<fs, base_path, pc, max_depth, scan_fetch, walked, repo_paths,
                   fetch_results, status_read, repositories, scan_result,
                   statusVars, warnings>>
    /\ UNCHANGED <<fetch_timeout, show_progress, progress_bar, counter, current,
                   fetch_return>>

\* The rest of a task when there is a progress bar: pb.set_position(current)
\* and the return of the result, which ends the task and its local current.
SetPosition(i) ==
    /\ pc = "fetch"
    /\ current[i] # << >>
    /\ fetch_results[i] = << >>
    /\ progress_bar' = << SetPositionOf(progress_bar[1], current[i][1]) >>
    /\ fetch_results' =
         [fetch_results EXCEPT ![i] =
            << MapErr(PerformFetchWithTimeout(
                        repo_paths[i], fetch_timeout, fetch_procs[i][1]).result) >>]
    /\ current' = [current EXCEPT ![i] = << >>]
    /\ UNCHANGED <<fs, base_path, pc, max_depth, scan_fetch, walked, repo_paths,
                   status_read, repositories, scan_result, statusVars, warnings>>
    /\ UNCHANGED <<fetch_timeout, show_progress, counter, fetch_procs,
                   fetch_return>>

\* The end of the function: every task returned, the bar is finished.
FinishFetch ==
    /\ pc = "fetch"
    /\ AllTasksDone(fetch_results)
    /\ progress_bar' = IF progress_bar = << >> THEN << >>
                       ELSE << FinishWithMessage(progress_bar[1]) >>

\* Variant of PerformParallelFetchReturn that gives up the tasks that have
\* not returned once one task returned an Err.
PerformParallelFetchReturnEarly ==
    /\ pc = "fetch"
    /\ \/ AllTasksDone(fetch_results)
       \/ \E i \in DOMAIN fetch_results :
             fetch_results[i] # << >> /\ fetch_results[i][1].kind = "Err"
    /\ progress_bar' = IF progress_bar = << >> THEN << >>
                       ELSE << FinishWithMessage(progress_bar[1]) >>
    /\ fetch_return' =
         << [i \in DOMAIN fetch_results |->
               IF fetch_results[i] = << >>
               THEN [kind |-> "Err", message |-> <<"cancelled">>]
               ELSE fetch_results[i][1]] >>
    /\ pc' = "done"
    /\ UNCHANGED <<fs, base_path, max_depth, scan_fetch, walked, repo_paths,
                   fetch_results, status_read, repositories, scan_result,
                   statusVars, warnings>>
    /\ UNCHANGED <<fetch_timeout, show_progress, counter, current, fetch_procs>>

\* The direct call returns results.
PerformParallelFetchReturn ==
    /\ FinishFetch
    /\ fetch_return' = << CollectResults(fetch_results) >>
    /\ pc' = "done"
    /\ UNCHANGED <<fs, base_path, max_depth, scan_fetch, walked, repo_paths,
                   fetch_results, status_read, repositories, scan_result,
                   statusVars, warnings>>
    /\ UNCHANGED <<fetch_timeout, show_progress, counter, current, fetch_procs>>

\* ------------------------------------------------------------------- scan
\* The walk and the collection of repo_paths that open both scan methods.
Discover(d, git_first) ==
    LET items == WalkDir(fs, base_path, 0, d, git_first)
    IN  /\ max_depth' = d
        /\ walked' = items
        /\ repo_paths' = RepoPaths(items)
        /\ warnings' = warnings \cup AccessWarnings(items)
        /\ status_read' = Pending(Len(RepoPaths(items)))
        /\ repositories' = Pending(Len(RepoPaths(items)))

\* scan_with_depth(base_path, max_depth) = scan_with_options(.., false)
ScanWithDepth ==
    /\ pc = "idle"
    /\ \E d \in 0 .. MaxDepthArg, git_first \in BOOLEAN : Discover(d, git_first)
    /\ scan_fetch' = FALSE
    /\ pc' = "status"
    /\ UNCHANGED <<fs, base_path, scan_result, fetch_results, statusVars, fetchVars>>

\* The fetch timeouts the scans are run with.
ScanFetchTimeouts == {1, DefaultFetchTimeout}

\* scan_with_options_and_timeout(base_path, max_depth, should_fetch,
\* fetch_timeout_secs) up to the start of the tasks of the parallel fetch,
\* which it calls with show_progress = true when there is a path to fetch.
ScanWithOptionsAndTimeout ==
    /\ pc = "idle"
    /\ \E d \in 0 .. MaxDepthArg, git_first \in BOOLEAN, sf \in BOOLEAN,
          t \in ScanFetchTimeouts :
        /\ Discover(d, git_first)
        /\ scan_fetch' = sf
        /\ IF sf /\ RepoPaths(WalkDir(fs, base_path, 0, d, git_first)) # << >>
           THEN /\ pc' = "fetch"
                /\ StartParallelFetch(
                     Len(RepoPaths(WalkDir(fs, base_path, 0, d, git_first))),
                     t, TRUE)
           ELSE /\ pc' = "status"
                /\ UNCHANGED <<fetch_results, fetchVars>>
    /\ UNCHANGED <<fs, base_path, scan_result, statusVars>>

\* Variant of FetchOne that fetches a repository again after a fetch that
\* did not succeed.
FetchOneRetrying(i) ==
    /\ pc = "fetch"
    /\ counter < 2 * Len(repo_paths)
    /\ \/ fetch_results[i] = << >>
       \/ /\ fetch_procs[i] # << >>
          /\ \/ fetch_procs[i][1].io_error # "none"
             \/ ExitCode(fetch_timeout, fetch_procs[i][1]) # <<0>>
    /\ \E attempt \in FetchAttemptSamples :
        /\ fetch_procs' = [fetch_procs EXCEPT ![i] = <<attempt>>]
        /\ warnings' = warnings \cup
                         FetchWarnings(repo_paths[i], fetch_timeout, attempt)
        /\ fetch_results' =
             [fetch_results EXCEPT ![i] =
                << MapErr(PerformFetchWithTimeout(
                            repo_paths[i], fetch_timeout, attempt).result) >>]
    /\ counter' = counter + 1
    /\ progress_bar' = << SetPositionOf(progress_bar[1], counter + 1) >>
    /\ UNCHANGED <<fs, base_path, pc, max_depth, scan_fetch, walked, repo_paths,
                   status_read, repositories, scan_result, statusVars>>
    /\ UNCHANGED <<fetch_timeout, show_progress, current, fetch_return>>

\* One task of the parallel fetch of a scan, as a single step: the fetch of
\* repo_paths[i], the increment of the counter, pb.set_position and the
\* return of the result (the scan always asks for a progress bar).
FetchOne(i) ==
    /\ pc = "fetch"
    /\ fetch_results[i] = << >>
    /\ \E attempt \in ParallelFetchAttempts :
        /\ Ends(fetch_timeout, attempt)
        /\ fetch_procs' = [fetch_procs EXCEPT ![i] = <<attempt>>]
        /\ warnings' = warnings \cup
                         FetchWarnings(repo_paths[i], fetch_timeout, attempt)
        /\ fetch_results' =
             [fetch_results EXCEPT ![i] =
                << MapErr(PerformFetchWithTimeout(
                            repo_paths[i], fetch_timeout, attempt).result) >>]
    /\ counter' = counter + 1
    /\ progress_bar' = << SetPositionOf(progress_bar[1], counter + 1) >>
    /\ UNCHANGED <<fs, base_path, pc, max_depth, scan_fetch, walked, repo_paths,
                   status_read, repositories, scan_result, statusVars>>
    /\ UNCHANGED <<fetch_timeout, show_progress, current, fetch_return>>

\* The parallel fetch returns to the scan, which drops _fetch_results (and
\* with it what the fetch left behind) and goes on with the status reads.
FetchAllReturn ==
    /\ FinishFetch
    /\ fetch_results' = << >>
    /\ fetch_procs' = << >>
    /\ current' = << >>
    /\ counter' = 0
    /\ pc' = "status"
    /\ UNCHANGED <<fs, base_path, max_depth, scan_fetch, walked, repo_paths,
                   status_read, repositories, scan_result, statusVars, warnings>>
    /\ UNCHANGED <<fetch_timeout, show_progress, fetch_return>>

\* Variant of StatusRead that does not wait for the parallel fetch to return.
StatusReadEarly(i) ==
    /\ pc \in {"fetch", "status"}
    /\ repositories[i] = << >>
    /\ \E status \in ScanStatusResults :
        /\ status_read' = [status_read EXCEPT ![i] = <<status.kind = "Ok">>]
        /\ repositories' = [repositories EXCEPT
                              ![i] = <<StatusTask(repo_paths[i], status)>>]
    /\ UNCHANGED <<fs, base_path, pc, max_depth, scan_fetch, walked, repo_paths,
                   fetch_results, scan_result, statusVars, fetchVars, warnings>>

\* One task of the parallel status read.
StatusRead(i) ==
    /\ pc = "status"
    /\ repositories[i] = << >>
    /\ \E status \in ScanStatusResults :
        /\ status_read' = [status_read EXCEPT ![i] = <<status.kind = "Ok">>]
        /\ repositories' = [repositories EXCEPT
                              ![i] = <<StatusTask(repo_paths[i], status)>>]
    /\ UNCHANGED <<fs, base_path, pc, max_depth, scan_fetch, walked, repo_paths,
                   fetch_results, scan_result, statusVars, fetchVars, warnings>>

\* .collect(): the Some values of the tasks, in the order of repo_paths.
RECURSIVE Collect(_)
Collect(options) ==
    IF options = << >> THEN << >>
    ELSE Head(options)[1] \o Collect(Tail(options))

ScanReturn ==
    /\ pc = "status"
    /\ \A i \in DOMAIN repositories : repositories[i] # << >>
    /\ scan_result' = << [kind |-> "Ok", value |-> Collect(repositories)] >>
    /\ pc' = "done"
    /\ UNCHANGED <<fs, base_path, max_depth, scan_fetch, walked, repo_paths,
                   fetch_results, status_read, repositories, statusVars,
                   fetchVars, warnings>>

\* No status call of its own is running during a scan.
NoStatusCall ==
    /\ parents = [c \in Commits |-> {}]
    /\ head = [kind |-> "unborn", name |-> <<"main">>, oid |-> 0]
    /\ remote_refs = [n \in RemoteNames |-> AbsentRef]
    /\ statuses = << >>
    /\ open_error = "none"
    /\ call = "none"
    /\ should_fetch = FALSE
    /\ result = << >>

InitScanOver(kinds, top) ==
    /\ \E sh \in Shapes(kinds, top) :
        /\ fs = BuildFs(sh)
        /\ base_path = LevelPath(sh, 0)
    /\ pc = "idle"
    /\ max_depth = 0
    /\ scan_fetch = FALSE
    /\ walked = << >>
    /\ repo_paths = << >>
    /\ fetch_results = << >>
    /\ status_read = << >>
    /\ repositories = << >>
    /\ scan_result = << >>
    /\ warnings = {}
    /\ NoStatusCall
    /\ NoFetch
    /\ NoMain

InitScanWithDepth == InitScanOver(AllLevelKinds, MaxLevel)

NextScanWithDepth ==
    \/ ScanWithDepth /\ UNCHANGED mainVars
    \/ \E i \in DOMAIN repositories : StatusRead(i) /\ UNCHANGED mainVars
    \/ ScanReturn /\ UNCHANGED mainVars

SpecScanWithDepth == InitScanWithDepth /\ [][NextScanWithDepth]_vars

\* The scans with a fetch run on trees one level shallower.
InitScan == InitScanOver(ScanLevelKinds, MaxLevel - 1)

NextScan ==
    \/ ScanWithOptionsAndTimeout /\ UNCHANGED mainVars
    \/ \E i \in DOMAIN fetch_results : FetchOne(i) /\ UNCHANGED mainVars
    \/ FetchAllReturn /\ UNCHANGED mainVars
    \/ \E i \in DOMAIN repositories : StatusRead(i) /\ UNCHANGED mainVars
    \/ ScanReturn /\ UNCHANGED mainVars

SpecScan == InitScan /\ [][NextScan]_vars

\* ======================================================================
\* git/status.rs: the fetch on its own
\* ======================================================================

\* Nothing is scanned: the variables of the walk and of the status reads.
NoWalk ==
    /\ fs = << >>
    /\ base_path = << >>
    /\ max_depth = 0
    /\ scan_fetch = FALSE
    /\ walked = << >>
    /\ status_read = << >>
    /\ repositories = << >>
    /\ scan_result = << >>

\* The repository paths handed to the fetch: directories of <<"work">>, and
\* for a single fetch the path without a file name as well.
RepoPathPool == { <<"work", n>> : n \in {"a", "b", "c"} }

FetchPathLists ==
    { l \in UNION { [1 .. n -> RepoPathPool] : n \in 0 .. MaxRepos } :
        \A i, j \in DOMAIN l : l[i] = l[j] => i = j }

\* One call of perform_fetch_with_timeout(repo_paths[1], timeout) with any
\* timeout and any way the fetch can go.
PerformFetchWithTimeoutCall ==
    /\ pc = "idle"
    /\ \E t \in FetchTimeouts, attempt \in FetchAttempts :
        /\ Ends(t, attempt)
        /\ fetch_timeout' = t
        /\ fetch_procs' = << <<attempt>> >>
        /\ fetch_results' =
             << << PerformFetchWithTimeout(repo_paths[1], t, attempt).result >> >>
        /\ warnings' = warnings \cup FetchWarnings(repo_paths[1], t, attempt)
    /\ pc' = "done"
    /\ UNCHANGED <<fs, base_path, max_depth, scan_fetch, walked, repo_paths,
                   status_read, repositories, scan_result, statusVars>>
    /\ UNCHANGED <<show_progress, progress_bar, counter, current, fetch_return>>

\* A call that stays in child.wait_with_output(): the fetch does not end.
PerformFetchWithTimeoutBlocks ==
    /\ pc = "idle"
    /\ \E t \in FetchTimeouts, attempt \in FetchAttempts :
        /\ ~Ends(t, attempt)
        /\ fetch_timeout' = t
        /\ fetch_procs' = << <<attempt>> >>
    /\ pc' = "fetch"
    /\ UNCHANGED <<fs, base_path, max_depth, scan_fetch, walked, repo_paths,
                   fetch_results, status_read, repositories, scan_result,
                   statusVars, warnings>>
    /\ UNCHANGED <<show_progress, progress_bar, counter, current, fetch_return>>

InitFetchOne ==
    /\ repo_paths \in { <<q>> : q \in RepoPathPool \cup { << >> } }
    /\ pc = "idle"
    /\ fetch_results = << >>
    /\ warnings = {}
    /\ NoWalk
    /\ NoStatusCall
    /\ NoFetch
    /\ NoMain

NextFetchOne ==
    \/ PerformFetchWithTimeoutCall /\ UNCHANGED mainVars
    \/ PerformFetchWithTimeoutBlocks /\ UNCHANGED mainVars

SpecFetchOne == InitFetchOne /\ [][NextFetchOne]_vars

InitFetchAll ==
    /\ repo_paths \in FetchPathLists
    /\ pc = "idle"
    /\ fetch_results = << >>
    /\ warnings = {}
    /\ NoWalk
    /\ NoStatusCall
    /\ NoFetch
    /\ NoMain

NextFetchAll ==
    \/ PerformParallelFetch /\ UNCHANGED mainVars
    \/ \E i \in DOMAIN fetch_procs : FetchAndCount(i) /\ UNCHANGED mainVars
    \/ \E i \in DOMAIN fetch_procs : FetchHangs(i) /\ UNCHANGED mainVars
    \/ \E i \in DOMAIN current : SetPosition(i) /\ UNCHANGED mainVars
    \/ PerformParallelFetchReturn /\ UNCHANGED mainVars

SpecFetchAll == InitFetchAll /\ [][NextFetchAll]_vars

\* Either a direct call of the parallel fetch on a list of paths (no base
\* path is walked) or a scan of a base path.
InitFetchAllOrScan == InitFetchAll \/ InitScan

NextFetchAllOrScan ==
    \/ base_path = << >> /\ NextFetchAll
    \/ base_path # << >> /\ NextScan

SpecFetchAllOrScan == InitFetchAllOrScan /\ [][NextFetchAllOrScan]_vars

\* The same with the scheduling the code relies on: rayon runs every task
\* of a parallel iterator and the threads of the process are scheduled, so
\* a step that can be taken is taken at some time.
FairSpecFetchAllOrScan ==
    SpecFetchAllOrScan /\ WF_vars(NextFetchAllOrScan)

\* ======================================================================
\* main.rs, config.rs, exclude.rs: one run of the program
\* ======================================================================

\* ------------------------------------------------------------------ paths
\* The home directory and the current directory of the process.
Home == <<"work">>
Cwd == <<"work", "a">>

\* shellexpand::tilde(path)
TildeExpand(path) ==
    IF path # << >> /\ Head(path) = "~" THEN Home \o Tail(path) ELSE path

\* The file a path names: a leading "." is the current directory.
Resolve(path) ==
    IF path # << >> /\ Head(path) = "." THEN Cwd \o Tail(path) ELSE path

\* Path::exists and Path::is_dir (which follow symbolic links; the links of
\* the modelled trees lead to directories).
Exists(path) == Resolve(path) \in DOMAIN fs
IsDir(path) == Exists(path) /\ fs[Resolve(path)] \in {"dir", "locked", "symlink"}

\* path.canonicalize().unwrap_or_else(|_| PathBuf::from(path)): the absolute
\* path of an existing file, the path as written otherwise.
Canonicalize(path) == IF Exists(path) THEN Resolve(path) ELSE path

\* Path::starts_with
StartsWith(path, base) ==
    Len(base) <= Len(path) /\ SubSeq(path, 1, Len(base)) = base

\* ---------------------------------------------------------------- Args
\* The defaults clap gives max_depth and fetch_timeout.
CliDefaultMaxDepth == 3
CliDefaultFetchTimeout == 5

\* Args::parse(): an option that was not given has its default value.
ArgsParse(cl) ==
    [paths |-> cl.paths,
     add_path |-> cl.add_path,
     changes_only |-> cl.changes_only,
     verbose |-> cl.verbose,
     max_depth |-> IF cl.max_depth = << >> THEN CliDefaultMaxDepth
                   ELSE cl.max_depth[1],
     format |-> IF cl.format = << >> THEN "text" ELSE cl.format[1],
     fetch |-> cl.fetch,
     fetch_timeout |-> IF cl.fetch_timeout = << >> THEN CliDefaultFetchTimeout
                       ELSE cl.fetch_timeout[1],
     no_config |-> cl.no_config,
     exclude |-> cl.exclude,
     no_exclude |-> cl.no_exclude]

\* ---------------------------------------------------------------- Config
\* Config::default()
ConfigDefault ==
    [defaults |-> [max_depth |-> 3, fetch |-> FALSE, fetch_timeout |-> 5,
                   format |-> "text", verbose |-> FALSE, changes_only |-> FALSE,
                   paths |-> << <<".">> >>],
     path_configs |-> << >>]

\* Config::load(config_path) on the file as it is found: no file gives the
\* default configuration, a file that cannot be read or parsed (or no
\* configuration directory) an error.
ConfigLoad(file) ==
    IF file.found = "absent" THEN [kind |-> "Ok", value |-> ConfigDefault]
    ELSE IF file.found = "invalid" THEN [kind |-> "Err", value |-> ConfigDefault]
    ELSE [kind |-> "Ok", value |-> file.content]

\* Config::path_matches(config_path, target_path)
PathMatches(config_path, target_path) ==
    LET config_canonical == Canonicalize(TildeExpand(config_path))
        target_canonical == Canonicalize(TildeExpand(target_path))
    IN  \/ target_canonical = config_canonical
        \/ StartsWith(target_canonical, config_canonical)

\* config.get_path_config(target_path): the first matching path
\* configuration, each of its fields falling back to the defaults.
GetPathConfig(cfg, target_path) ==
    LET matching == SelectSeq(cfg.path_configs,
                              LAMBDA entry : PathMatches(entry.path, target_path))
        Field(name) == IF matching # << >> /\ Head(matching)[name] # << >>
                       THEN Head(matching)[name][1]
                       ELSE cfg.defaults[name]
    IN  [max_depth |-> Field("max_depth"),
         fetch |-> Field("fetch"),
         fetch_timeout |-> Field("fetch_timeout"),
         format |-> Field("format"),
         verbose |-> Field("verbose"),
         changes_only |-> Field("changes_only")]

\* The PathConfigResolved main builds from the defaults alone.
DefaultsOnly(cfg) ==
    [max_depth |-> cfg.defaults.max_depth,
     fetch |-> cfg.defaults.fetch,
     fetch_timeout |-> cfg.defaults.fetch_timeout,
     format |-> cfg.defaults.format,
     verbose |-> cfg.defaults.verbose,
     changes_only |-> cfg.defaults.changes_only]

\* --------------------------------------------------------- ExcludeFilter
\* ExcludeFilter::from_patterns(patterns).is_excluded(path). A pattern is a
\* gitignore line without wildcards, as its components: a single name
\* matches a path with that file name, a pattern of several components is
\* anchored and matches that very path.
IsExcluded(patterns, path) ==
    \E i \in DOMAIN patterns :
        IF Len(patterns[i]) = 1
        THEN path # << >> /\ path[Len(path)] = patterns[i][1]
        ELSE path = patterns[i]

\* ------------------------------------------------------------------ main
\* Lines 31-42: the base paths of the run.
PathsToScan(a, cfg) ==
    IF a.paths = << >> THEN cfg.defaults.paths
    ELSE IF a.add_path THEN cfg.defaults.paths \o a.paths
    ELSE a.paths

\* Lines 58-72: the configuration applied to a base path.
PathConfigOf(a, cfg, path) ==
    IF a.paths = << >> \/ a.add_path THEN GetPathConfig(cfg, path)
    ELSE DefaultsOnly(cfg)

\* Lines 75-87: the settings of the scan of a base path.
MaxDepthOf(a, path_config) ==
    IF a.max_depth # CliDefaultMaxDepth THEN a.max_depth ELSE path_config.max_depth

FetchOf(a, path_config) == IF a.fetch THEN TRUE ELSE path_config.fetch

FetchTimeoutOf(a, path_config) ==
    IF a.fetch_timeout # CliDefaultFetchTimeout THEN a.fetch_timeout
    ELSE path_config.fetch_timeout

\* Lines 10-42: the parse of the command line, the load of the
\* configuration (a load error is a warning and gives the default
\* configuration) and the choice of the base paths.
MainStart ==
    /\ main_pc = "start"
    /\ LET a == ArgsParse(argv)
           loaded == ConfigLoad(config_file)
           cfg == IF a.no_config \/ loaded.kind = "Err" THEN ConfigDefault
                  ELSE loaded.value
       IN  /\ args' = a
           /\ config' = <<cfg>>
           /\ warnings' = IF ~a.no_config /\ loaded.kind = "Err"
                          THEN warnings \cup
                                 { [kind |-> "config", path |-> << >>,
                                    error |-> ErrorRecord("ConfigError", << >>, 0, << >>)] }
                          ELSE warnings
           /\ paths_to_scan' = PathsToScan(a, cfg)
    /\ path_index' = 1
    /\ main_pc' = "loop"
    /\ UNCHANGED <<argv, config_file, scan_calls, all_repositories, exit_status,
                   stdout>>
    /\ UNCHANGED <<statusVars, scanVars, fetchVars>>

\* Variant of InvalidBasePath that warns and goes on with the next path.
InvalidBasePathSkipped ==
    /\ main_pc = "loop"
    /\ path_index <= Len(paths_to_scan)
    /\ ~IsDir(TildeExpand(paths_to_scan[path_index]))
    /\ warnings' = warnings \cup
         { [kind |-> "error", path |-> paths_to_scan[path_index],
            error |-> ErrorRecord("skipped", paths_to_scan[path_index], 0, << >>)] }
    /\ path_index' = path_index + 1
    /\ UNCHANGED <<argv, args, config_file, config, main_pc, paths_to_scan,
                   scan_calls, all_repositories, exit_status, stdout>>
    /\ UNCHANGED <<statusVars, scanVars, fetchVars>>

\* Lines 44-55: the base path the loop is at does not exist or is not a
\* directory: an error line and exit code 1.
InvalidBasePath ==
    /\ main_pc = "loop"
    /\ path_index <= Len(paths_to_scan)
    /\ LET path == paths_to_scan[path_index]
           expanded_path == TildeExpand(path)
       IN  /\ ~IsDir(expanded_path)
           /\ warnings' = warnings \cup
                { [kind |-> "error", path |-> path,
                   error |-> ErrorRecord(IF Exists(expanded_path)
                                         THEN "is not a directory"
                                         ELSE "does not exist", path, 0, << >>)] }
    /\ exit_status' = <<1>>
    /\ main_pc' = "exit"
    /\ UNCHANGED <<argv, args, config_file, config, paths_to_scan, path_index,
                   scan_calls, all_repositories, stdout>>
    /\ UNCHANGED <<statusVars, scanVars, fetchVars>>

\* What scan_with_options_and_timeout(path, d, ..) returns, the call taken
\* as one step: the repositories of the paths it discovers, in order.
ScanRepositories(path, d, git_first, status_of) ==
    LET found == RepoPaths(WalkDir(fs, Resolve(path), 0, d, git_first))
    IN  [i \in DOMAIN found |-> StatusTask(found[i], status_of[i])[1]]

\* The warnings of that call: of the walk and, with fetch, of the fetches,
\* which all go as attempt says.
ScanWarnings(path, d, git_first, fetches, timeout_secs, attempt) ==
    LET items == WalkDir(fs, Resolve(path), 0, d, git_first)
        found == RepoPaths(items)
    IN  AccessWarnings(items) \cup
        IF fetches
        THEN UNION { FetchWarnings(found[i], timeout_secs, attempt) :
                       i \in DOMAIN found }
        ELSE {}

\* Lines 44-115 for a base path that is a directory: its settings are
\* resolved, it is scanned and the repositories found are appended. The scan
\* always returns Ok, so the Err arms of lines 98-113 are never taken.
ScanBasePath ==
    /\ main_pc = "loop"
    /\ path_index <= Len(paths_to_scan)
    /\ LET path == paths_to_scan[path_index]
           expanded_path == TildeExpand(path)
           path_config == PathConfigOf(args, config[1], path)
           d == MaxDepthOf(args, path_config)
           fetches == FetchOf(args, path_config)
           timeout_secs == FetchTimeoutOf(args, path_config)
       IN  /\ IsDir(expanded_path)
           /\ \E git_first \in BOOLEAN :
                LET n == Len(RepoPaths(WalkDir(fs, Resolve(expanded_path), 0, d,
                                               git_first)))
                IN  \E status_of \in [1 .. n -> ScanStatusResults],
                       attempt \in FetchAttemptSamples :
                      /\ all_repositories' = all_repositories \o
                           ScanRepositories(expanded_path, d, git_first, status_of)
                      /\ warnings' = warnings \cup
                           ScanWarnings(expanded_path, d, git_first, fetches,
                                        timeout_secs, attempt)
           /\ scan_calls' = Append(scan_calls,
                                   [path |-> expanded_path, max_depth |-> d,
                                    should_fetch |-> fetches,
                                    fetch_timeout_secs |-> timeout_secs])
    /\ path_index' = path_index + 1
    /\ UNCHANGED <<argv, args, config_file, config, main_pc, paths_to_scan,
                   exit_status, stdout>>
    /\ UNCHANGED <<statusVars, scanVars, fetchVars>>

\* Lines 117-158: changes_only, format and verbose are resolved (from the
\* command line, else from the configuration of the first base path), the
\* repositories are filtered and the report is printed.
PrintReport ==
    /\ main_pc = "loop"
    /\ path_index > Len(paths_to_scan)
    /\ LET first == IF paths_to_scan = << >> THEN << >>
                    ELSE << GetPathConfig(config[1], paths_to_scan[1]) >>
           changes_only == IF args.changes_only THEN TRUE
                           ELSE IF first = << >> THEN FALSE
                           ELSE first[1].changes_only
           format == IF args.format # "text" THEN args.format
                     ELSE IF first = << >> THEN "text"
                     ELSE first[1].format
           verbose == IF args.verbose THEN TRUE
                      ELSE IF first = << >> THEN FALSE
                      ELSE first[1].verbose
           HasChanges(r) == r.has_changes
           filtered_repos == IF changes_only
                             THEN SelectSeq(all_repositories, HasChanges)
                             ELSE all_repositories
       IN  stdout' = << [repositories |-> filtered_repos, format |-> format,
                         verbose |-> verbose] >>
    /\ exit_status' = <<0>>
    /\ main_pc' = "exit"
    /\ UNCHANGED <<argv, args, config_file, config, paths_to_scan, path_index,
                   scan_calls, all_repositories, warnings>>
    /\ UNCHANGED <<statusVars, scanVars, fetchVars>>

\* --------------------------------------------------------- the runs modelled
\* Base paths given on the command line or in the configuration: the top
\* directory of the tree (also written with a tilde), the directory below
\* it, the .git entry of the top directory (a directory, a regular file or
\* missing) and a path that does not exist.
TopPath == <<"work", "a">>
TildePath == <<"~", "a">>
SubPath == <<"work", "a", "a">>
DotGitPath == <<"work", "a", ".git">>
MissingPath == <<"work", "none">>

\* The paths of a command line, with or without --add-path.
PathArgs ==
    { [paths |-> << >>, add_path |-> FALSE],
      [paths |-> <<TopPath>>, add_path |-> FALSE],
      [paths |-> <<SubPath>>, add_path |-> TRUE],
      [paths |-> <<TildePath, SubPath>>, add_path |-> TRUE],
      [paths |-> <<TopPath, MissingPath>>, add_path |-> FALSE],
      [paths |-> <<MissingPath, TopPath>>, add_path |-> TRUE],
      [paths |-> <<SubPath, DotGitPath>>, add_path |-> FALSE] }

\* --max-depth and --fetch-timeout: not given, given with another value
\* than the default, given with the default value.
MaxDepthArgs == { << >>, <<1>>, <<CliDefaultMaxDepth>> }
FetchTimeoutArgs == { << >>, <<2>>, <<CliDefaultFetchTimeout>> }

\* --exclude patterns: none, or the name of the directories of the tree.
ExcludeArgs == { << >>, << <<"a">> >> }

\* The command lines: --changes-only, --verbose and --format json are given
\* together or not at all; --no-config is tried on the last configuration
\* file below.
CommandLines ==
    { [paths |-> p.paths, add_path |-> p.add_path, changes_only |-> pr,
       verbose |-> pr,
       format |-> IF pr THEN <<"json">> ELSE << >>, max_depth |-> md,
       fetch |-> f, fetch_timeout |-> ft, no_config |-> nc, exclude |-> ex,
       no_exclude |-> FALSE] :
        p \in PathArgs, pr \in BOOLEAN, md \in MaxDepthArgs,
        f \in BOOLEAN, ft \in FetchTimeoutArgs, nc \in BOOLEAN,
        ex \in ExcludeArgs }

\* Configuration files: one that sets every default, one with a path
\* configuration for the top directory, one with two path configurations
\* that both match the directory below it.
ConfigSamples ==
    { [defaults |-> [max_depth |-> 2, fetch |-> TRUE, fetch_timeout |-> 9,
                     format |-> "json", verbose |-> TRUE, changes_only |-> TRUE,
                     paths |-> <<TopPath>>],
       path_configs |-> << >>],
      [defaults |-> ConfigDefault.defaults,
       path_configs |->
         << [path |-> TildePath, max_depth |-> <<1>>, fetch |-> <<TRUE>>,
             fetch_timeout |-> <<2>>, format |-> << >>, verbose |-> << >>,
             changes_only |-> <<TRUE>>] >>],
      [defaults |-> [max_depth |-> 2, fetch |-> TRUE, fetch_timeout |-> 9,
                     format |-> "text", verbose |-> FALSE, changes_only |-> FALSE,
                     paths |-> <<SubPath, TopPath>>],
       path_configs |->
         << [path |-> SubPath, max_depth |-> <<0>>, fetch |-> <<FALSE>>,
             fetch_timeout |-> << >>, format |-> <<"json">>, verbose |-> <<TRUE>>,
             changes_only |-> << >>],
            [path |-> TopPath, max_depth |-> <<4>>, fetch |-> << >>,
             fetch_timeout |-> <<1>>, format |-> << >>, verbose |-> << >>,
             changes_only |-> << >>] >>] }

ConfigFiles ==
    { [found |-> "absent", content |-> ConfigDefault],
      [found |-> "invalid", content |-> ConfigDefault] }
    \cup { [found |-> "ok", content |-> c] : c \in ConfigSamples }

\* The trees of the runs: two levels fewer than those of scan_with_depth,
\* of directories with a .git directory, a .git file or none.
MainLevelKinds == {"plain", "repo", "gitfile"}

InitMain ==
    /\ \E sh \in Shapes(MainLevelKinds, MaxLevel - 2) : fs = BuildFs(sh)
    /\ argv \in CommandLines
    /\ config_file \in ConfigFiles
    /\ argv.no_config => /\ config_file.found = "ok"
                          /\ Len(config_file.content.path_configs) = 2
    /\ args = << >>
    /\ config = << >>
    /\ main_pc = "start"
    /\ paths_to_scan = << >>
    /\ path_index = 0
    /\ scan_calls = << >>
    /\ all_repositories = << >>
    /\ exit_status = << >>
    /\ stdout = << >>
    /\ warnings = {}
    /\ base_path = << >>
    /\ pc = "none"
    /\ max_depth = 0
    /\ scan_fetch = FALSE
    /\ walked = << >>
    /\ repo_paths = << >>
    /\ fetch_results = << >>
    /\ status_read = << >>
    /\ repositories = << >>
    /\ scan_result = << >>
    /\ NoStatusCall
    /\ NoFetch

NextMain ==
    \/ MainStart
    \/ InvalidBasePath
    \/ ScanBasePath
    \/ PrintReport

SpecMain == InitMain /\ [][NextMain]_vars

\* ======================================================================
\* Properties
\* ======================================================================

\* The call returned Ok(RepoStatus).
Returned == call = "done" /\ result # << >> /\ result[1].kind = "Ok"

\* HEAD names a commit and refs/remotes/origin/<branch> is a direct ref:
\* the two tips check_remote_sync compares.
HasTips ==
    /\ head.kind # "unborn"
    /\ Shorthand(head) # << >>
    /\ Shorthand(head)[1] \in DOMAIN remote_refs
    /\ remote_refs[Shorthand(head)[1]].kind = "direct"

LocalTip == head.oid
RemoteTip == remote_refs[Shorthand(head)[1]].oid

\* a is an ancestor of b in the commit graph and differs from it.
StrictAncestor(a, b) == a # b /\ a \in Ancestors(b)

\* C1: when the local tip is a strict ancestor of the tip of
\* origin/<branch>, the returned status is 'behind': needs_pull is true and
\* needs_push is false.
C1_BehindNeedsPullOnly ==
    (Returned /\ HasTips /\ StrictAncestor(LocalTip, RemoteTip))
        => (result[1].needs_pull /\ ~result[1].needs_push)

C1_Witness ==
    /\ Returned /\ HasTips /\ StrictAncestor(LocalTip, RemoteTip)
    /\ LocalTip \notin parents[RemoteTip]
    /\ result[1].needs_pull

\* C2: when the tip of origin/<branch> is a strict ancestor of the local
\* tip, the returned status is 'ahead': needs_push is true and needs_pull is
\* false.
C2_AheadNeedsPushOnly ==
    (Returned /\ HasTips /\ StrictAncestor(RemoteTip, LocalTip))
        => (result[1].needs_push /\ ~result[1].needs_pull)

C2_Witness ==
    /\ Returned /\ HasTips /\ StrictAncestor(RemoteTip, LocalTip)
    /\ should_fetch
    /\ result[1].needs_push

\* Neither tip is an ancestor of the other (this includes histories that
\* share no commit at all).
Unrelated(a, b) == a # b /\ a \notin Ancestors(b) /\ b \notin Ancestors(a)

\* C3: when the two tips differ and neither is an ancestor of the other,
\* with or without a common ancestor, the returned status is 'diverged':
\* needs_pull and needs_push are both true.
C3_DivergedNeedsBoth ==
    (Returned /\ HasTips /\ Unrelated(LocalTip, RemoteTip))
        => (result[1].needs_pull /\ result[1].needs_push)

\* Both sub-cases: a fork from a common commit, and disjoint histories.
C3_Witness ==
    /\ Returned /\ HasTips /\ Unrelated(LocalTip, RemoteTip)
    /\ Ancestors(LocalTip) \cap Ancestors(RemoteTip) = {}
    /\ result[1].needs_pull /\ result[1].needs_push

C3_WitnessFork ==
    /\ Returned /\ HasTips /\ Unrelated(LocalTip, RemoteTip)
    /\ Ancestors(LocalTip) \cap Ancestors(RemoteTip) # {}
    /\ result[1].needs_pull /\ result[1].needs_push

\* C4: when the local tip is the tip of refs/remotes/origin/<branch>, the
\* returned status has remote_branch = "origin/<branch>" and needs_pull and
\* needs_push both false.
C4_EqualTipsInSync ==
    (Returned /\ HasTips /\ LocalTip = RemoteTip)
        => /\ result[1].remote_branch = << <<"origin/", Shorthand(head)[1]>> >>
           /\ ~result[1].needs_pull
           /\ ~result[1].needs_push

C4_Witness ==
    /\ Returned /\ HasTips /\ LocalTip = RemoteTip
    /\ parents[LocalTip] # {}
    /\ result[1].remote_branch = << <<"origin/", "main">> >>

\* There is no ref refs/remotes/origin/<branch> for the branch HEAD is on.
NoRemoteRef ==
    /\ head.kind = "branch"
    /\ head.name # << >>
    /\ \/ head.name[1] \notin DOMAIN remote_refs
       \/ remote_refs[head.name[1]].kind = "absent"

\* C5: every returned status with remote_branch absent has needs_pull and
\* needs_push false; an unborn HEAD yields no current branch, a branch
\* without a ref refs/remotes/origin/<branch> yields that branch, and both
\* yield remote_branch absent and both flags false.
C5_NoRemoteBranchNoFlags ==
    Returned =>
        /\ result[1].remote_branch = << >>
             => (~result[1].needs_pull /\ ~result[1].needs_push)
        /\ head.kind = "unborn"
             => /\ result[1].current_branch = << >>
                /\ result[1].remote_branch = << >>
                /\ ~result[1].needs_pull /\ ~result[1].needs_push
        /\ NoRemoteRef
             => /\ result[1].current_branch = head.name
                /\ result[1].remote_branch = << >>
                /\ ~result[1].needs_pull /\ ~result[1].needs_push

\* An unborn HEAD in a repository that already has origin/main.
C5_Witness ==
    /\ Returned /\ head.kind = "unborn"
    /\ remote_refs["main"].kind = "direct"
    /\ result[1].remote_branch = << >>

C5_WitnessNoRef ==
    /\ Returned /\ NoRemoteRef /\ head.name = <<"dev">>
    /\ remote_refs["main"].kind = "direct" /\ remote_refs["main"].oid # head.oid
    /\ result[1].current_branch = <<"dev">>

\* ---------------------------------------------------------------- discovery
\* a is a prefix of b: b is a or lies below a.
IsPrefix(a, b) == Len(a) <= Len(b) /\ SubSeq(b, 1, Len(a)) = a

\* Directory levels of p below the base path.
Level(p) == Len(p) - Len(base_path)

\* p is an existing directory (a symbolic link to one is not).
IsDirectory(p) == p \in DOMAIN fs /\ fs[p] \in {"dir", "locked"}

DotGitOf(p) == p \o <<".git">>

\* The walk can list what is in p: p is a readable directory, or the base
\* path given as a symbolic link to one (no other link is followed).
Traversable(p) ==
    /\ p \in DOMAIN fs
    /\ fs[p] = "dir" \/ (p = base_path /\ fs[p] = "symlink")

\* The entry q is the base path or can be reached from it through
\* directories the walk can list.
Listed(q) ==
    /\ q \in DOMAIN fs
    /\ IsPrefix(base_path, q)
    /\ \A n \in Len(base_path) .. (Len(q) - 1) : Traversable(SubSeq(q, 1, n))

\* The directories at or below the base path that directly contain a .git
\* directory the walk can reach.
RepositoryRoots ==
    { p \in DOMAIN fs :
        /\ IsPrefix(base_path, p)
        /\ IsDirectory(DotGitOf(p))
        /\ Listed(DotGitOf(p)) }

Discovered == { repo_paths[i] : i \in DOMAIN repo_paths }

ScanDone == pc = "done" /\ scan_result # << >> /\ scan_result[1].kind = "Ok"

ResultPaths ==
    { scan_result[1].value[i].path : i \in DOMAIN scan_result[1].value }

C7_WitnessDeep ==
    /\ ScanDone /\ max_depth = 4
    /\ \E p1, p3 \in RepositoryRoots :
          /\ Level(p1) = 1 /\ Level(p3) = 3
          /\ p1 \in ResultPaths /\ p3 \in ResultPaths

\* C8: discovery reports a directory iff it directly contains an entry
\* named .git that is itself a directory and that the walk reaches within
\* max_depth levels without following symbolic links; a directory whose
\* .git entry is a regular file or a symbolic link is never reported, and
\* every reported path is the parent of a .git directory.
C8_ReportedIffDotGitDirectory ==
    pc # "idle" =>
        /\ \A p \in DOMAIN fs \cup {Parent(base_path)} :
              p \in Discovered <=>
                  /\ IsDirectory(DotGitOf(p))
                  /\ Listed(DotGitOf(p))
                  /\ Level(DotGitOf(p)) <= max_depth
        /\ \A p \in Discovered : IsDirectory(DotGitOf(p))
        /\ \A p \in DOMAIN fs :
              (DotGitOf(p) \in DOMAIN fs /\ fs[DotGitOf(p)] \in {"file", "symlink"})
                  => p \notin Discovered

\* A walk deep enough to see a .git directory, a .git file, a .git symbolic
\* link and a .git directory behind a symbolic link.
C8_Witness ==
    /\ pc = "done" /\ max_depth = MaxLevel + 1
    /\ \E p \in Discovered : IsPrefix(base_path, p)
    /\ \E p \in DOMAIN fs : /\ DotGitOf(p) \in DOMAIN fs
                            /\ fs[DotGitOf(p)] = "file" /\ Listed(DotGitOf(p))
    /\ \E p \in DOMAIN fs : /\ DotGitOf(p) \in DOMAIN fs
                            /\ fs[DotGitOf(p)] = "symlink" /\ Listed(DotGitOf(p))
    /\ \E p \in DOMAIN fs : /\ fs[p] = "symlink" /\ Listed(p)
                            /\ IsDirectory(DotGitOf(p))

\* C9: discovery never descends into a directory named .git (it yields no
\* entry that lies inside one below the base path) and never reports a
\* directory named .git.
C9_NeverEntersNorReportsDotGit ==
    pc # "idle" =>
        /\ \A i \in DOMAIN walked :
              \A n \in (Len(base_path) + 1) .. (Len(walked[i].path) - 1) :
                  walked[i].path[n] # ".git"
        /\ \A p \in Discovered : FileName(p) # ".git"

\* C10 as stated: a discovered directory whose status cannot be read is left
\* out of the scan result and a warning names it.
C10_InvalidRepositoryOmitted ==
    ScanDone =>
        \A i \in DOMAIN repo_paths :
            status_read[i] = <<FALSE>> =>
                /\ repo_paths[i] \notin ResultPaths
                /\ \E w \in warnings : w.kind = "status" /\ w.path = repo_paths[i]

\* C10, amended: a discovered directory whose status cannot be read is
\* still part of the scan result, as the Repository::new value of its path
\* (has_changes false, no branch, no changed files, no remote information),
\* and no warning is written for it; the scan returns Ok with one entry per
\* discovered path, in the order of discovery, the readable ones with their
\* status.
C10_InvalidRepositoryKeptWithDefaults ==
    pc = "done" =>
        /\ ScanDone
        /\ Len(scan_result[1].value) = Len(repo_paths)
        /\ \A i \in DOMAIN repo_paths :
              LET r == scan_result[1].value[i]
              IN  /\ r.path = repo_paths[i]
                  /\ status_read[i] = <<TRUE>> => r.current_branch # << >>
                  /\ status_read[i] = <<FALSE>> =>
                        /\ ~r.has_changes
                        /\ r.current_branch = << >>
                        /\ r.changed_files = << >>
                        /\ ~r.needs_pull /\ ~r.needs_push
                        /\ r.remote_branch = << >>
                        /\ \A w \in warnings :
                              w.path = repo_paths[i] => w.kind = "fetch"

C10_Witness ==
    /\ ScanDone
    /\ \E i, j \in DOMAIN repo_paths :
          /\ status_read[i] = <<FALSE>> /\ status_read[j] = <<TRUE>>
          /\ repo_paths[i] \in ResultPaths /\ repo_paths[j] \in ResultPaths
          /\ scan_result[1].value[j].has_changes

\* The directories whose .git directory the walk yields: reachable from the
\* base path and at most max_depth levels below it.
WithinDepthBound(p) ==
    /\ IsDirectory(DotGitOf(p))
    /\ Listed(DotGitOf(p))
    /\ Level(DotGitOf(p)) <= max_depth

\* The positions of path p in the returned Vec<Repository>.
ResultIndexes(p) ==
    { i \in DOMAIN scan_result[1].value : scan_result[1].value[i].path = p }

\* C11: scan returns Ok with exactly one Repository for every directory
\* whose .git directory lies within the depth bound and none for any other
\* path, also when the status of that directory cannot be read: such an
\* entry carries the directory's name and the defaults has_changes = false,
\* current_branch = None, changed_files empty.
C11_OneRepositoryPerDotGitDirectory ==
    pc = "done" =>
        /\ ScanDone
        /\ \A p \in DOMAIN fs \cup {Parent(base_path)} :
              Cardinality(ResultIndexes(p)) = IF WithinDepthBound(p) THEN 1 ELSE 0
        /\ \A i \in DOMAIN scan_result[1].value :
              scan_result[1].value[i].path \in DOMAIN fs \cup {Parent(base_path)}
        /\ \A i \in DOMAIN repo_paths :
              status_read[i] = <<FALSE>> =>
                  \E j \in ResultIndexes(repo_paths[i]) :
                      LET r == scan_result[1].value[j]
                      IN  /\ r.name = FileName(repo_paths[i])
                          /\ ~r.has_changes
                          /\ r.current_branch = << >>
                          /\ r.changed_files = << >>

\* Two directories with a .git directory, neither a valid repository (as in
\* test_scan_finds_git_repositories), both returned.
C11_Witness ==
    /\ ScanDone
    /\ Len(repo_paths) >= 2
    /\ \A i \in DOMAIN repo_paths : status_read[i] = <<FALSE>>
    /\ \A i \in DOMAIN repo_paths : Cardinality(ResultIndexes(repo_paths[i])) = 1

\* ------------------------------------------------------ status of one path
\* C12: the status of a path that is not a valid repository root (its
\* metadata is missing or corrupt, so that Git2Repository::open fails) is
\* never returned: the call fails, and always with GitRepositoryNotFound,
\* never with another error kind.
C12_InvalidRootIsRepositoryNotFound ==
    (call = "done" /\ open_error # "none")
        => result = Err("GitRepositoryNotFound")

\* The fetch of the status call did not succeed: the process could not be
\* spawned or waited for, ran into the timeout or exited with a failure.
FetchFailed(timeout_secs, attempt) ==
    \/ attempt.io_error # "none"
    \/ ExitCode(timeout_secs, attempt) # <<0>>

\* C13: with should_fetch = true no failure of the fetch, of whatever kind
\* (non-zero exit, timeout, failure to start or to wait for the process),
\* aborts the status reading: the call answers as it does without a fetch,
\* with the status or with an error of the status reading itself, and the
\* remote refs are those of the last successful fetch.
C13_FetchFailureNeverAborts ==
    (/\ call = "done" /\ should_fetch /\ open_error = "none"
     /\ FetchFailed(DefaultFetchTimeout, fetch_procs[1][1]))
        => \/ result[1].kind = "Ok"
           \/ result[1].error = "GitOperationFailed: get status"

\* C14: in every returned status has_changes is true iff changed_files is
\* not empty, whatever the status entries are, entries whose path is not
\* valid UTF-8 included.
C14_HasChangesIffChangedFiles ==
    Returned => (result[1].has_changes <=> result[1].changed_files # << >>)

\* ------------------------------------------------------------ one fetch
\* The call of perform_fetch_with_timeout returned.
FetchDone == pc = "done" /\ fetch_procs # << >> /\ fetch_procs[1] # << >>

\* How the fetch of the call went, and what the call returned.
TheAttempt == fetch_procs[1][1]
TheOutcome == fetch_results[1][1]

\* The errors of the "Warning: .." lines of the fetches.
LoggedErrors == { w.error : w \in { x \in warnings : x.kind = "fetch" } }

\* C15: a fetch whose process runs longer than the configured timeout
\* (a positive number of seconds) yields the outcome Timeout with
\* seconds = the configured timeout: an Err, not Ok(()), and not an error
\* of another kind.
C15_TimeoutIsTheOutcome ==
    (/\ FetchDone /\ TheAttempt.io_error = "none"
     /\ fetch_timeout > 0 /\ TheAttempt.takes > fetch_timeout)
        => /\ TheOutcome.kind = "Err"
           /\ TheOutcome.error.kind = "TimeoutError"
           /\ TheOutcome.error.timeout_secs = fetch_timeout

\* ------------------------------------------------------- several fetches
\* fetchAll returned.
FetchAllDone == pc = "done" /\ fetch_return # << >>

\* C16: the outcome returned for a repository is a failure (an Err with the
\* error) iff its fetch failed (non-zero exit, timeout, failure to start or
\* to wait for the process), and a success only if the fetch succeeded.
C16_OutcomeIsFailureIffFetchFailed ==
    FetchAllDone =>
        \A i \in DOMAIN repo_paths :
            fetch_return[1][i].kind = "Err"
                <=> FetchFailed(fetch_timeout, fetch_procs[i][1])

\* ---------------------------------------------------------- classification
\* The fetch process ran and ended with a failure (a timeout included).
ExitedWithFailure ==
    /\ FetchDone
    /\ TheAttempt.io_error = "none"
    /\ ExitCode(fetch_timeout, TheAttempt) # <<0>>

\* The class of a failure by the priority order of the phrases.
FailureClass(stderr, exit_code) ==
    IF exit_code = <<TimeoutExitCode>> THEN "Timeout"
    ELSE IF Contains(stderr, "Repository not found") THEN "RepositoryUnreachable"
    ELSE IF Contains(stderr, "Could not read from remote")
            \/ Contains(stderr, "Authentication failed") THEN "AuthenticationFailed"
    ELSE IF Contains(stderr, "Network is unreachable")
            \/ Contains(stderr, "Temporary failure") THEN "NetworkError"
    ELSE IF Trim(stderr) # << >> THEN "FetchFailed"
    ELSE "Empty"

NamedClasses == {"Timeout", "RepositoryUnreachable", "AuthenticationFailed",
                 "NetworkError", "FetchFailed"}

TheClass == FailureClass(TheAttempt.stderr, ExitCode(fetch_timeout, TheAttempt))

\* The classes Timeout, RepositoryUnreachable, AuthenticationFailed,
\* NetworkError and FetchFailed read as distinct error kinds: the kind of
\* the error of a failed fetch differs from the kind given to any failure
\* of another class. from_fetch_error has the kinds TimeoutError,
\* AuthenticationError and NetworkError only.
C17_ClassesAreDistinctKinds ==
    (ExitedWithFailure /\ TheClass \in NamedClasses) =>
        \A e \in LoggedErrors :
            \A stderr \in Stderrs, code \in { <<1>>, <<TimeoutExitCode>> } :
                (/\ FailureClass(stderr, code) \in NamedClasses
                 /\ FailureClass(stderr, code) # TheClass)
                    => FromFetchError(repo_paths[1], stderr, code).kind # e.kind

\* C17: a failed fetch is reported with exactly one error, named after the
\* last component of the repository path and chosen from what the fetch
\* wrote to stderr in this order: exit code 124 gives the timeout error
\* with the configured seconds, whatever the message; then "Repository not
\* found" gives the error of a remote that does not exist (NetworkError
\* "Remote repository not found"); then "Could not read from remote" or
\* "Authentication failed" gives the authentication error; then "Network is
\* unreachable" or "Temporary failure" gives the connectivity error
\* (NetworkError "Network error"); then any other text gives the generic
\* error with the text retained (trimmed); an empty or blank text gives
\* the generic error "Failed to fetch from remote".
C17_ClassifiedInPriorityOrder ==
    ExitedWithFailure =>
        /\ Cardinality(LoggedErrors) = 1
        /\ \A e \in LoggedErrors :
              /\ e.repo_path = RepoName(repo_paths[1])
              /\ TheClass = "Timeout" =>
                    e.kind = "TimeoutError" /\ e.timeout_secs = fetch_timeout
              /\ TheClass = "RepositoryUnreachable" =>
                    /\ e.kind = "NetworkError"
                    /\ e.message = <<"Remote repository not found">>
              /\ TheClass = "AuthenticationFailed" =>
                    /\ e.kind = "AuthenticationError"
                    /\ e.message = <<"Authentication or access denied">>
              /\ TheClass = "NetworkError" =>
                    e.kind = "NetworkError" /\ e.message = <<"Network error">>
              /\ TheClass = "FetchFailed" =>
                    e.kind = "NetworkError" /\ e.message = Trim(TheAttempt.stderr)
              /\ TheClass = "Empty" =>
                    /\ e.kind = "NetworkError"
                    /\ e.message = <<"Failed to fetch from remote">>

\* What the program does instead: whatever the fetch wrote, a failure that
\* is not a timeout is reported as NetworkError "Failed to fetch from
\* remote", and a timeout as TimeoutError with the configured seconds.
C17_EveryFailureIsGeneric ==
    ExitedWithFailure =>
        /\ Cardinality(LoggedErrors) = 1
        /\ \A e \in LoggedErrors :
              /\ e.repo_path = RepoName(repo_paths[1])
              /\ IF TheClass = "Timeout"
                 THEN e.kind = "TimeoutError" /\ e.timeout_secs = fetch_timeout
                 ELSE /\ e.kind = "NetworkError"
                      /\ e.message = <<"Failed to fetch from remote">>

\* A fetch that fails with "Authentication failed" on stderr and is
\* reported as NetworkError "Failed to fetch from remote".
C17_AuthenticationFailureReportedAsGeneric ==
    /\ ExitedWithFailure
    /\ TheAttempt.stderr = <<"Authentication failed">>
    /\ TheAttempt.code = <<128>>
    /\ ~TimedOut(fetch_timeout, TheAttempt)
    /\ \E e \in LoggedErrors :
          e.kind = "NetworkError" /\ e.message = <<"Failed to fetch from remote">>

\* -------------------------------------------------------- the parallel fetch
\* What the fetch of repo_paths[i] hands back, given how its process went.
OutcomeOf(i) ==
    MapErr(PerformFetchWithTimeout(repo_paths[i], fetch_timeout,
                                   fetch_procs[i][1]).result)

\* C18: fetchAll returns exactly one outcome per input path, and outcome i
\* is the outcome of the fetch of repo_paths[i], in whatever order the
\* concurrent fetches ran and finished.
C18_OneOutcomePerPathInOrder ==
    pc = "done" =>
        /\ fetch_return # << >>
        /\ Len(fetch_return[1]) = Len(repo_paths)
        /\ \A i \in DOMAIN repo_paths : fetch_return[1][i] = OutcomeOf(i)

\* Two paths, the first fetch could not be started and the second went
\* well: the Err names the first path and comes first.
C18_Witness ==
    /\ FetchAllDone
    /\ Len(repo_paths) = 2
    /\ fetch_procs[1][1].io_error = "spawn"
    /\ fetch_procs[2][1].io_error = "none"
    /\ fetch_return[1][1].kind = "Err"
    /\ fetch_return[1][1].message[2] = repo_paths[1]
    /\ fetch_return[1][2].kind = "Ok"

\* C19: fetchAll returns only after the fetch of every path has been
\* attempted and has ended; a fetch that failed or timed out does not keep
\* any other from being attempted and does not make the call return early.
C19_ReturnsAfterEveryFetch ==
    pc = "done" =>
        /\ \A i \in DOMAIN repo_paths : fetch_procs[i] # << >>
        /\ \A i \in DOMAIN repo_paths : fetch_results[i] # << >>
        /\ repo_paths # << >> => Len(fetch_return[1]) = Len(repo_paths)

\* A fetch that could not be started, one that timed out or failed, and
\* the call returned with both attempted.
C19_Witness ==
    /\ FetchAllDone
    /\ Len(repo_paths) = 2
    /\ \E i, j \in DOMAIN repo_paths :
          /\ i # j
          /\ fetch_procs[i][1].io_error = "spawn"
          /\ TimedOut(fetch_timeout, fetch_procs[j][1])

\* The tasks whose fetch has ended.
Fetched ==
    { i \in DOMAIN fetch_procs :
        fetch_procs[i] # << >> /\ Ends(fetch_timeout, fetch_procs[i][1]) }

\* C20: with show_progress the counter is incremented exactly once for
\* every repository whose fetch has ended, successful or not; the bar shows
\* the total only once the fetch of every repository has been attempted,
\* and shows it when fetchAll returns.
C20_ProgressCountsEveryFetchOnce ==
    (show_progress /\ repo_paths # << >> /\ pc \in {"fetch", "done"}) =>
        /\ progress_bar # << >>
        /\ progress_bar[1].len = Len(repo_paths)
        /\ counter = Cardinality(Fetched)
        /\ progress_bar[1].pos <= counter
        /\ progress_bar[1].pos = progress_bar[1].len =>
              Fetched = DOMAIN repo_paths
        /\ pc = "done" =>
              /\ progress_bar[1].pos = progress_bar[1].len
              /\ progress_bar[1].finished
              /\ counter = Len(repo_paths)

\* A failed and a successful fetch, both counted, the bar at 2 of 2.
C20_Witness ==
    /\ FetchAllDone /\ show_progress
    /\ Len(repo_paths) = 2
    /\ counter = 2
    /\ progress_bar[1].pos = 2
    /\ \E i, j \in DOMAIN repo_paths :
          /\ FetchFailed(fetch_timeout, fetch_procs[i][1])
          /\ ~FetchFailed(fetch_timeout, fetch_procs[j][1])

\* ------------------------------------------------------------ nothing to fetch
\* C21: the parallel fetch of an empty list returns an empty list in one
\* step, with no task started, no progress bar created and nothing logged; a
\* scan that discovers no repository starts no fetch and creates no progress
\* bar, whether or not fetch is enabled.
C21_EmptyListFetchesNothing ==
    (pc # "idle" /\ repo_paths = << >>) =>
        /\ progress_bar = << >>
        /\ fetch_procs = << >>
        /\ fetch_results = << >>
        /\ counter = 0
        /\ LoggedErrors = {}
        /\ IF base_path = << >>
           THEN pc = "done" /\ fetch_return = << << >> >>
           ELSE pc \in {"status", "done"} /\ fetch_return = << >>

\* A direct call on the empty list that asked for a progress bar returned.
C21_Witness ==
    /\ base_path = << >>
    /\ repo_paths = << >>
    /\ show_progress
    /\ pc = "done"
    /\ fetch_return = << << >> >>

\* A scan with fetch enabled that found no repository returned.
C21_WitnessScan ==
    /\ base_path # << >>
    /\ scan_fetch
    /\ repo_paths = << >>
    /\ ScanDone

\* ------------------------------------------------- fetch failures in a scan
\* C22: in a scan with fetch enabled every failed fetch (non-zero exit,
\* timeout, failure to start the fetch process) has a "Warning: .." line of
\* its repository, and every discovered repository is reported all the same.
C22_EveryFetchFailureIsLogged ==
    /\ (scan_fetch /\ pc = "fetch") =>
          \A i \in DOMAIN fetch_procs :
              (fetch_procs[i] # << >>
               /\ FetchFailed(fetch_timeout, fetch_procs[i][1]))
                  => \E w \in warnings :
                         w.kind = "fetch" /\ w.path = repo_paths[i]
    /\ (scan_fetch /\ ScanDone) =>
          /\ Len(scan_result[1].value) = Len(repo_paths)
          /\ \A i \in DOMAIN repo_paths :
                scan_result[1].value[i].path = repo_paths[i]

\* ------------------------------------------------------- a timeout of zero
\* C24: with a timeout of 0 seconds a fetch that needs any time at all is
\* cut off at once and reported as a timeout: the call returns and a
\* TimeoutError is logged; the fetch never runs without a time bound.
C24_ZeroTimeoutIsImmediateTimeout ==
    (/\ pc # "idle" /\ fetch_timeout = 0
     /\ fetch_procs # << >> /\ fetch_procs[1] # << >>
     /\ TheAttempt.io_error = "none" /\ TheAttempt.takes > 0)
        => /\ pc = "done"
           /\ \E e \in LoggedErrors : e.kind = "TimeoutError"

\* ------------------------------------------------------ the displayed count
\* C27: with show_progress the position the progress bar displays never
\* decreases: every step that changes it moves it to a greater position,
\* however the tasks of the parallel fetch interleave.
C27_DisplayedPositionNeverDecreases ==
    [][(progress_bar # << >> /\ progress_bar' # << >>)
          => progress_bar'[1].pos >= progress_bar[1].pos]_vars

\* ------------------------------------------------------ the order of a scan
\* A fetch of the scan has started or ended.
SomeFetchRan ==
    \/ counter > 0
    \/ \E i \in DOMAIN fetch_procs : fetch_procs[i] # << >>
    \/ LoggedErrors # {}

\* A status of the scan has been read.
SomeStatusRead == \E i \in DOMAIN repositories : repositories[i] # << >>

\* What the fetches of a scan change.
FetchState == <<fetch_procs, fetch_results, counter, progress_bar, LoggedErrors>>

\* C28: in a scan the discovery is over before a fetch starts (the list of
\* repository paths does not change afterwards); while the parallel fetch
\* runs no status has been read, and the status reads start only once the
\* fetch of every discovered repository has returned; a status read changes
\* nothing of the fetches; with fetch disabled no fetch runs at all.
C28_DiscoverThenFetchThenStatus ==
    /\ [](pc = "idle" => ~SomeFetchRan /\ ~SomeStatusRead)
    /\ [](pc = "fetch" => scan_fetch /\ ~SomeStatusRead)
    /\ [](~scan_fetch => ~SomeFetchRan /\ progress_bar = << >>)
    /\ [][/\ pc # "idle" => repo_paths' = repo_paths /\ walked' = walked
          /\ (pc = "fetch" /\ pc' # "fetch") =>
                /\ pc' = "status"
                /\ \A i \in DOMAIN repo_paths : fetch_results[i] # << >>
          /\ pc \in {"status", "done"} => FetchState' = FetchState]_vars

\* A scan with fetch enabled read the statuses of two repositories after a
\* fetch that logged a warning.
C28_Witness ==
    /\ ScanDone /\ scan_fetch
    /\ Len(repo_paths) = 2
    /\ LoggedErrors # {}
    /\ \A i \in DOMAIN repositories : repositories[i] # << >>

\* ----------------------------------------------------------------- no retry
\* The repositories of the scan whose fetch was run.
FetchedOfScan == { i \in DOMAIN fetch_procs : fetch_procs[i] # << >> }

\* C29: in one scan no repository is discovered twice and the number of
\* fetches run equals the number of repositories fetched, so none is
\* fetched twice; a fetch that was run, failed or not, is not run again;
\* the parallel fetch returns when every discovered repository was fetched
\* exactly once, and nothing is fetched after it returned. Without fetch
\* nothing is fetched.
C29_EachRepositoryFetchedOnce ==
    /\ [](\A i, j \in DOMAIN repo_paths : repo_paths[i] = repo_paths[j] => i = j)
    /\ [](pc = "fetch" => counter = Cardinality(FetchedOfScan))
    /\ [](~scan_fetch => counter = 0 /\ FetchedOfScan = {})
    /\ [][/\ (pc = "fetch" /\ pc' = "fetch") =>
                \A i \in FetchedOfScan :
                    /\ fetch_procs'[i] = fetch_procs[i]
                    /\ fetch_results'[i] = fetch_results[i]
          /\ (pc = "fetch" /\ pc' # "fetch") =>
                /\ FetchedOfScan = DOMAIN repo_paths
                /\ counter = Len(repo_paths)
          /\ pc \in {"status", "done"} =>
                /\ counter' = counter
                /\ fetch_procs' = fetch_procs
                /\ LoggedErrors' = LoggedErrors]_vars

\* Two repositories were fetched, one of them ran into the timeout, and the
\* parallel fetch is about to return.
C29_Witness ==
    /\ pc = "fetch" /\ scan_fetch
    /\ Len(repo_paths) = 2
    /\ counter = 2
    /\ \E i \in DOMAIN fetch_procs :
          fetch_procs[i] # << >> /\ TimedOut(fetch_timeout, fetch_procs[i][1])

InvalidBasePaths ==
    { i \in DOMAIN paths_to_scan : ~IsDir(TildeExpand(paths_to_scan[i])) }

Exited == main_pc = "exit"

\* C23: when one of the base paths of the run does not exist or is not a
\* directory, wherever it stands among the base paths, no report is ever
\* printed and the program ends with exit code 1.
C23_InvalidBasePathStopsTheRun ==
    InvalidBasePaths # {} =>
        /\ stdout = << >>
        /\ Exited => exit_status = <<1>>

\* A run whose second base path does not exist ended after the scan of the
\* first had found a repository.
C23_Witness ==
    /\ Exited
    /\ InvalidBasePaths = {2}
    /\ Len(scan_calls) = 1
    /\ all_repositories # << >>
    /\ exit_status = <<1>>

\* A run whose base path is a regular file ended.
C23_WitnessNotADirectory ==
    /\ Exited
    /\ \E i \in InvalidBasePaths : Exists(TildeExpand(paths_to_scan[i]))
    /\ exit_status = <<1>>

\* ------------------------------------------------------------ precedence
\* C25: every scan of a run is made with the max_depth, the fetch flag and
\* the fetch timeout given on the command line, when they are given,
\* whatever the configuration file says and also when the value given is
\* the built-in default.
C25_CommandLineTakesPrecedence ==
    \A i \in DOMAIN scan_calls :
        /\ argv.max_depth # << >> =>
              scan_calls[i].max_depth = argv.max_depth[1]
        /\ argv.fetch => scan_calls[i].should_fetch
        /\ argv.fetch_timeout # << >> =>
              scan_calls[i].fetch_timeout_secs = argv.fetch_timeout[1]

\* ------------------------------------------------------------- exclusion
\* C26: no repository of the report has a path that matches one of the
\* --exclude patterns of the command line.
C26_ExcludedRepositoryNotReported ==
    stdout # << >> =>
        \A i \in DOMAIN stdout[1].repositories :
            ~IsExcluded(argv.exclude, stdout[1].repositories[i].path)

====
